---- MODULE Spec2Model ----
(***************************************************************************)
(* A model of the fraud-detection core of the repository:                  *)
(*   src/Python/data_preprocessing.py  DataPreprocessor                    *)
(*   src/Python/fraud_detection.py     FraudDetectionModel                 *)
(* A transaction batch (a pandas DataFrame) is a sequence of rows; the     *)
(* estimators of scikit-learn are modelled by what the calls made in the   *)
(* source do with the frame they are handed (their fitted columns, their   *)
(* statistics), never by their learned parameters.                         *)
(***************************************************************************)
EXTENDS Integers, Sequences, FiniteSets, TLC

(***************************************************************************)
(* Bounds of the model.                                                    *)
(***************************************************************************)
MaxTrainRows == 4
MaxScoreRows == 1
MaxFitRows == 2
MaxPairRows == 2
MaxStoreFitRows == 1
MaxSaves == 2
MaxEvalRows == 3
MaxTimeRows == 2
MaxSplitRows == 6
MaxContaminationRows == 5

(***************************************************************************)
(* Values.                                                                 *)
(***************************************************************************)
NULL == "<null>"
\* Python's None, where an object may stand.
None == [is_none |-> TRUE]
\* A call that returned without raising.
Ok == "ok"
\* What the methods raise.
EncoderNotFitted == "ValueError: Preprocessor has not been fitted yet"
NotTrained == "ValueError: Model not trained"
Unsupported == "ValueError: Unsupported model type"
NoModelToSave == "ValueError: No model to save"
FileNotFound == "FileNotFoundError"
LibValueError == "ValueError"
LibNotFitted == "NotFittedError"
IOError == "OSError"
\* Category values in the order Python sorts strings (by code point).
Lex == <<"LA", "NY", "food", "tech", "unknown">>

\* The rows batches are drawn from.
RowSeq ==
    << [amount |-> 10, timestamp |-> [year |-> 2024, month |-> 3, day |-> 1, hour |-> 9],
        merchant_category |-> "food", location |-> "NY"],
       [amount |-> 30, timestamp |-> [year |-> 2024, month |-> 3, day |-> 1, hour |-> 9],
        merchant_category |-> "tech", location |-> "NY"],
       [amount |-> 30, timestamp |-> [year |-> 2024, month |-> 3, day |-> 2, hour |-> 23],
        merchant_category |-> NULL, location |-> "LA"] >>
RowSet == { RowSeq[i] : i \in DOMAIN RowSeq }

\* The columns of an uploaded batch, in order.
RawCols == <<"amount", "timestamp", "merchant", "merchant_category", "location">>

(***************************************************************************)
(* Helpers on sequences and numbers.                                       *)
(***************************************************************************)
Range(s) == { s[i] : i \in DOMAIN s }

RECURSIVE SumSeq(_)
SumSeq(s) == IF s = <<>> THEN 0 ELSE Head(s) + SumSeq(Tail(s))

RECURSIVE Gcd(_, _)
Gcd(a, b) == IF b = 0 THEN a ELSE Gcd(b, a % b)

SeqsUpTo(S, lo, hi) == UNION { [1..n -> S] : n \in lo..hi }

\* The values of Lex that are in S, in sorted order.
SortedValues(S) == SelectSeq(Lex, LAMBDA v : v \in S)

Contains(s, x) == \E i \in DOMAIN s : s[i] = x

(***************************************************************************)
(* A real number  sgn * sqrt(num / den)  in lowest terms: the values a     *)
(* StandardScaler produces from integer data.                              *)
(***************************************************************************)
Surd(p, q2) ==
    \* p / sqrt(q2), for q2 > 0
    LET g == Gcd(p * p, q2)
    IN  [sgn |-> IF p > 0 THEN 1 ELSE IF p < 0 THEN -1 ELSE 0,
         num |-> (p * p) \div g,
         den |-> IF p = 0 THEN 1 ELSE q2 \div g]

\* sklearn.preprocessing.StandardScaler: the statistics fit() stores of a column.
ScalerFit(xs) ==
    [n |-> Len(xs), s |-> SumSeq(xs), q |-> SumSeq([i \in DOMAIN xs |-> xs[i] * xs[i]])]

\* A plausible slip in the scaling: the division by the standard deviation
\* made also where it is zero, which gives a value that is no finite number.
ScalerTransformUnguarded(st, x) ==
    LET d == st.n * st.q - st.s * st.s
        p == st.n * x - st.s
    IN  IF d = 0
        THEN [sgn |-> IF p > 0 THEN 1 ELSE IF p < 0 THEN -1 ELSE 0, num |-> 1, den |-> 0]
        ELSE Surd(p, d)

\* (x - mean_) / scale_  with scale_ = sqrt(var_), and scale_ = 1 where var_ = 0.
\* With n, s, q the count, the sum and the sum of squares:
\*   mean_ = s / n,   var_ = (n * q - s * s) / (n * n).
ScalerTransform(st, x) ==
    LET d == st.n * st.q - st.s * st.s
        p == st.n * x - st.s
    IN  IF d = 0 THEN Surd(p, st.n * st.n) ELSE Surd(p, d)

(***************************************************************************)
(* DataPreprocessor.extract_time_features                                  *)
(***************************************************************************)
\* Days since 1970-01-01 of a civil date (proleptic Gregorian calendar).
DaysFromCivil(y, m, d) ==
    LET yy  == IF m <= 2 THEN y - 1 ELSE y
        era == yy \div 400
        yoe == yy - era * 400
        mp  == (m + 9) % 12
        doy == (153 * mp + 2) \div 5 + d - 1
        doe == yoe * 365 + yoe \div 4 - yoe \div 100 + doy
    IN  era * 146097 + doe - 719468

\* A plausible slip in the day of the week: the week counted from Sunday.
DayOfWeekFromSunday(ts) == (DaysFromCivil(ts.year, ts.month, ts.day) + 4) % 7

\* Series.dt.dayofweek: Monday = 0 ... Sunday = 6 (1970-01-01 was a Thursday).
DayOfWeek(ts) == (DaysFromCivil(ts.year, ts.month, ts.day) + 3) % 7

TimeCols == <<"hour", "day_of_week", "day_of_month", "month", "year", "is_weekend">>

TimeFeatures(ts) ==
    LET dow == DayOfWeek(ts)
    IN  [hour |-> ts.hour, day_of_week |-> dow, day_of_month |-> ts.day,
         month |-> ts.month, year |-> ts.year,
         is_weekend |-> IF dow >= 5 THEN 1 ELSE 0]

\* The columns of the frame extract_time_features returns: an assignment to an
\* existing column keeps its place, a new column is appended.
ExtractTimeCols(cols) ==
    IF Contains(cols, "timestamp")
    THEN cols \o SelectSeq(TimeCols, LAMBDA c : ~Contains(cols, c))
    ELSE cols

(***************************************************************************)
(* DataPreprocessor.preprocess_data                                        *)
(***************************************************************************)
numeric_features == <<"amount">>
categorical_features == <<"merchant_category", "location">>

FillNa(v) == IF v = NULL THEN "unknown" ELSE v

\* The numeric value of column c in a row, before scaling.
RawNumeric(row, c) ==
    IF c = "amount" THEN row.amount ELSE TimeFeatures(row.timestamp)[c]

\* pd.get_dummies(df[col], prefix=col, drop_first=True): one column per
\* distinct value of the batch, sorted, without the first.
Dummies(rows, col) ==
    LET vals == SortedValues({ FillNa(rows[i][col]) : i \in DOMAIN rows })
    IN  IF vals = <<>> THEN <<>>
        ELSE [k \in 1..(Len(vals) - 1) |-> [name |-> col \o "_" \o vals[k + 1],
                                            col |-> col, value |-> vals[k + 1]]]

DummyCols(rows) == Dummies(rows, "merchant_category") \o Dummies(rows, "location")

\* A frame is [cols, rows]: its column names in order and its rows. The frame
\* preprocess_data returns keeps every column it was given, fit-transforms a
\* fresh StandardScaler on the numeric columns of this batch, and concatenates
\* the indicator columns of this batch's categories.
\*   cols : the column names of the result
\*   num  : per row, the scaled value of each of numeric_cols
\*   ind  : per row, the value of each indicator column added by this call
PreprocessData(frame) ==
    LET rows == frame.rows
        numeric_cols == numeric_features \o TimeCols
        stats == [j \in DOMAIN numeric_cols |->
                    ScalerFit([i \in DOMAIN rows |-> RawNumeric(rows[i], numeric_cols[j])])]
        dums == DummyCols(rows)
    IN  [cols |-> ExtractTimeCols(frame.cols) \o [k \in DOMAIN dums |-> dums[k].name],
         rows |-> rows,
         num  |-> [i \in DOMAIN rows |->
                    [j \in DOMAIN numeric_cols |->
                        ScalerTransform(stats[j], RawNumeric(rows[i], numeric_cols[j]))]],
         ind  |-> [i \in DOMAIN rows |->
                    [k \in DOMAIN dums |->
                        IF FillNa(rows[i][dums[k].col]) = dums[k].value THEN 1 ELSE 0]]]

(***************************************************************************)
(* DataPreprocessor.__init__ / fit / transform                             *)
(***************************************************************************)
\* DataPreprocessor(): self.preprocessor = None
NewDataPreprocessor == [preprocessor |-> None]

\* The ColumnTransformer fit() builds: before its own fit it holds no statistics.
UnfittedColumnTransformer == [fitted |-> FALSE]

\* ColumnTransformer.fit(X): the scaler statistics of 'amount' and, per
\* categorical column, the sorted distinct values after imputing 'unknown'
\* (OneHotEncoder.categories_). Amounts of the model are never null, so the
\* median imputer leaves the column as it is.
ColumnTransformerFit(rows) ==
    [fitted |-> TRUE,
     scaler |-> ScalerFit([i \in DOMAIN rows |-> rows[i].amount]),
     categories |-> [j \in DOMAIN categorical_features |->
        SortedValues({ FillNa(rows[i][categorical_features[j]]) : i \in DOMAIN rows })]]

\* fit(X): self.preprocessor is assigned before ColumnTransformer.fit runs, which
\* raises on a batch of no rows.
Fit(self, rows) ==
    IF rows = <<>>
    THEN [self |-> [self EXCEPT !.preprocessor = UnfittedColumnTransformer],
          raised |-> LibValueError]
    ELSE [self |-> [self EXCEPT !.preprocessor = ColumnTransformerFit(rows)],
          raised |-> Ok]

\* A plausible slip in the encoding: a value outside the vocabulary falls into
\* the first category's column.
OneHotFirst(categories, v) ==
    [k \in DOMAIN categories |->
        IF categories[k] = v \/ (~Contains(categories, v) /\ k = 1) THEN 1 ELSE 0]

\* OneHotEncoder(handle_unknown='ignore').transform of one value.
OneHot(categories, v) == [k \in DOMAIN categories |-> IF categories[k] = v THEN 1 ELSE 0]

\* ColumnTransformer.transform(X): per row the scaled amount, then the
\* indicator block of each categorical column.
ColumnTransformerTransform(ct, rows) ==
    [i \in DOMAIN rows |->
        <<ScalerTransform(ct.scaler, rows[i].amount)>>
        \o OneHot(ct.categories[1], FillNa(rows[i].merchant_category))
        \o OneHot(ct.categories[2], FillNa(rows[i].location))]

\* A plausible slip in transform: a preprocessor that was never fitted passes
\* the batch through instead of raising.
TransformUnchecked(self, rows) ==
    IF self.preprocessor = None
    THEN [raised |-> Ok, value |-> [i \in DOMAIN rows |-> <<rows[i].amount>>]]
    ELSE IF ~self.preprocessor.fitted
    THEN [raised |-> LibNotFitted, value |-> <<>>]
    ELSE IF rows = <<>>
    THEN [raised |-> LibValueError, value |-> <<>>]
    ELSE [raised |-> Ok, value |-> ColumnTransformerTransform(self.preprocessor, rows)]

\* transform(X): [raised, value]. The ColumnTransformer itself raises when fit
\* assigned it and its own fit then raised, and on a batch of no rows.
Transform(self, rows) ==
    IF self.preprocessor = None
    THEN [raised |-> EncoderNotFitted, value |-> <<>>]
    ELSE IF ~self.preprocessor.fitted
    THEN [raised |-> LibNotFitted, value |-> <<>>]
    ELSE IF rows = <<>>
    THEN [raised |-> LibValueError, value |-> <<>>]
    ELSE [raised |-> Ok, value |-> ColumnTransformerTransform(self.preprocessor, rows)]

(***************************************************************************)
(* sklearn.model_selection.train_test_split(..., stratify=y)               *)
(***************************************************************************)
CeilDiv(a, b) == (a + b - 1) \div b

Count(y, c) == Cardinality({ i \in DOMAIN y : y[i] = c })

\* A plausible slip in the split: the stratification left out, so that the
\* training partition takes any number of rows of each class.
ApproximateModeUnstratified(cnt, n_draws) ==
    { a \in [DOMAIN cnt -> 0..n_draws] :
        /\ \A k \in DOMAIN cnt : a[k] <= cnt[k]
        /\ SumSeq([k \in 1..2 |-> IF (k - 1) \in DOMAIN cnt THEN a[k - 1] ELSE 0]) = n_draws }

\* _approximate_mode(class_counts, n_draws): each class gets the floor of its
\* share, and the draws left over go to the classes with the largest
\* remainders, ties broken at random. The set of allocations it can return.
ApproximateMode(cnt, n_draws) ==
    LET K == DOMAIN cnt
        total == SumSeq([k \in 1..2 |-> IF (k - 1) \in K THEN cnt[k - 1] ELSE 0])
        floored == [k \in K |-> (cnt[k] * n_draws) \div total]
        rem == [k \in K |-> (cnt[k] * n_draws) % total]
        need == n_draws - SumSeq([k \in 1..2 |-> IF (k - 1) \in K THEN floored[k - 1] ELSE 0])
    IN  { [k \in K |-> floored[k] + IF k \in S THEN 1 ELSE 0] :
            S \in { T \in SUBSET K : /\ Cardinality(T) = need
                                     /\ \A k \in T : \A j \in K \ T : rem[k] >= rem[j] } }

\* Whether the split raises ValueError: an empty training partition, a class
\* with fewer than 2 members, or a partition smaller than the number of classes.
SplitRaises(y, test_size) ==
    LET n == Len(y)
        n_test == CeilDiv(test_size * n, 100)
        n_train == n - n_test
        K == Range(y)
    IN  \/ n = 0
        \/ n_train = 0
        \/ \E k \in K : Count(y, k) < 2
        \/ n_train < Cardinality(K)
        \/ n_test < Cardinality(K)

\* The held-out index sets the split can return (the shuffle is seeded, so which
\* rows of a class it holds out depends on the order of the batch).
TestIndexSets(y, test_size) ==
    LET n == Len(y)
        n_test == CeilDiv(test_size * n, 100)
        K == Range(y)
        cnt == [k \in K |-> Count(y, k)]
    IN  IF SplitRaises(y, test_size) THEN {}
        ELSE { T \in SUBSET (DOMAIN y) :
                \E n_i \in ApproximateMode(cnt, n - n_test) :
                    \A k \in K : Cardinality({ i \in T : y[i] = k }) = cnt[k] - n_i[k] }

\* The rows of s at the indices in T, in order.
SubSeq2(s, T) == SelectSeq([i \in DOMAIN s |-> [i |-> i, v |-> s[i]]], LAMBDA e : e.i \in T)
Pick(s, T) == LET p == SubSeq2(s, T) IN [k \in DOMAIN p |-> p[k].v]

(***************************************************************************)
(* FraudDetectionModel                                                     *)
(***************************************************************************)
ModelTypes == {"random_forest", "isolation_forest", "svm"}
Handles == {1}
\* test_size of train, in percent.
TestSizes == {20, 50}

\* __init__(model_type)
NewFraudDetectionModel(model_type) ==
    [model_type |-> model_type,
     model |-> None,
     preprocessor |-> NewDataPreprocessor,
     model_path |-> <<"./models/", model_type, "_model.joblib">>,
     is_trained |-> FALSE]

\* A plausible slip in the path of the preprocessor file: the replace matches
\* nothing, and the preprocessor is written over the model.
PreprocessorPathSame(model_path) == model_path

\* self.model_path.replace('_model.joblib', '_preprocessor.joblib')
PreprocessorPath(model_path) ==
    IF model_path[3] = "_model.joblib"
    THEN <<model_path[1], model_path[2], "_preprocessor.joblib">>
    ELSE model_path

Paths ==
    UNION { { NewFraudDetectionModel(t).model_path,
              PreprocessorPath(NewFraudDetectionModel(t).model_path) } : t \in ModelTypes }

\* float(sum(y) / len(y)), in lowest terms.
Contamination(y) ==
    LET g == Gcd(SumSeq(y), Len(y))
    IN  [num |-> SumSeq(y) \div g, den |-> Len(y) \div g]

\* IsolationForest.fit validates contamination: a float in (0, 0.5].
ContaminationValid(c) == c.num > 0 /\ 2 * c.num <= c.den

\* The estimator self.model holds after the fit of train on a frame with
\* columns cols: [raised, model]. The estimator's conversion of the values of
\* the frame to floats is not modelled: a batch stands for a frame whose values
\* the estimator takes, and what is kept of a fit is the columns it saw.
FitEstimator(model_type, cols, y) ==
    IF model_type = "random_forest"
    THEN [raised |-> Ok,
          model |-> [kind |-> "RandomForestClassifier", fitted |-> TRUE,
                     feature_names_in |-> cols]]
    ELSE LET c == Contamination(y)
         IN  IF ContaminationValid(c)
             THEN [raised |-> Ok,
                   model |-> [kind |-> "IsolationForest", fitted |-> TRUE,
                              contamination |-> c, feature_names_in |-> cols]]
             ELSE [raised |-> LibValueError,
                   model |-> [kind |-> "IsolationForest", fitted |-> FALSE,
                              contamination |-> c]]

\* What a fitted estimator does with a frame it is handed to predict on: it
\* raises on a frame of another width; on a frame of the same width under other
\* column names it raises or only warns, by the version of the library.
EstimatorAccepts(model, cols) ==
    IF ~model.fitted THEN {LibNotFitted}
    ELSE IF Len(cols) # Len(model.feature_names_in) THEN {LibValueError}
    ELSE IF cols # model.feature_names_in THEN {LibValueError, Ok}
    ELSE {Ok}

\* predict(X) and predict_proba(X) up to the call of the estimator: the set of
\* [raised, handed, rows, num], handed being the columns of the frame handed
\* to the estimator (<<>> when the call raises before).
ScoreRun(self, frame) ==
    IF self.model = None
    THEN {[raised |-> NotTrained, handed |-> <<>>, rows |-> <<>>, num |-> <<>>]}
    ELSE IF frame.rows = <<>>
    THEN {[raised |-> LibValueError, handed |-> <<>>, rows |-> <<>>, num |-> <<>>]}
    ELSE LET Xp == PreprocessData(frame)
         IN  IF self.model_type \in {"random_forest", "isolation_forest"}
             THEN { [raised |-> r, handed |-> Xp.cols, rows |-> Xp.rows, num |-> Xp.num] :
                     r \in EstimatorAccepts(self.model, Xp.cols) }
             ELSE {[raised |-> Unsupported, handed |-> <<>>, rows |-> <<>>, num |-> <<>>]}

\* train(X, y, test_size) up to the call of save_model, for one held-out index
\* set T: [raised, assigned, model, handed]. assigned tells whether self.model
\* was assigned, model is what it was assigned, handed the columns of the
\* frame the evaluation handed to the estimator.
TrainOn(model_type, Xp, y, T) ==
    IF model_type \notin {"random_forest", "isolation_forest"}
    THEN {[raised |-> Unsupported, assigned |-> FALSE, model |-> None, handed |-> <<>>]}
    ELSE LET train == DOMAIN y \ T
             fit == FitEstimator(model_type, Xp.cols, y)
             self == [model_type |-> model_type, model |-> fit.model]
         IN  IF fit.raised # Ok
             THEN {[raised |-> fit.raised, assigned |-> TRUE, model |-> fit.model,
                    handed |-> <<>>]}
             ELSE { [raised |-> r.raised, assigned |-> TRUE, model |-> fit.model,
                     handed |-> r.handed] :
                     r \in ScoreRun(self, [cols |-> Xp.cols, rows |-> Pick(Xp.rows, T)]) }

TrainRun(model_type, rows, y, test_size) ==
    IF rows = <<>> \/ SplitRaises(y, test_size)
    THEN {[raised |-> LibValueError, assigned |-> FALSE, model |-> None, handed |-> <<>>]}
    ELSE LET Xp == PreprocessData([cols |-> RawCols, rows |-> rows])
         IN  UNION { TrainOn(model_type, Xp, y, T) : T \in TestIndexSets(y, test_size) }

\* The batches of the model. A training batch is a sequence of labelled rows
\* <<k, label>>, k an index of RowSeq; the order of its rows only decides which
\* of them the seeded shuffle holds out, which TestIndexSets leaves open, so
\* one order of each batch is enough.
LabelledRows == (DOMAIN RowSeq) \X {0, 1}
Rank(e) == 2 * e[1] + e[2]
TrainBatches ==
    { b \in SeqsUpTo(LabelledRows, 1, MaxTrainRows) :
        \A i \in 1..(Len(b) - 1) : Rank(b[i]) <= Rank(b[i + 1]) }
RowsOf(b) == [i \in DOMAIN b |-> RowSeq[b[i][1]]]
LabelsOf(b) == [i \in DOMAIN b |-> b[i][2]]
ScoreBatches == SeqsUpTo(RowSet, 1, MaxScoreRows)
PairBatches == SeqsUpTo(RowSet, 1, MaxPairRows)
FitBatches == SeqsUpTo(RowSet, 0, MaxFitRows)
StoreFitBatches == SeqsUpTo(RowSet, 0, MaxStoreFitRows)

\* What train can do up to save_model, over every batch of the model.
TrainRuns ==
    [t \in ModelTypes |->
        UNION { TrainRun(t, RowsOf(b), LabelsOf(b), ts) :
                b \in TrainBatches, ts \in TestSizes }]

(***************************************************************************)
(* FraudDetectionModel.evaluate                                            *)
(***************************************************************************)
\* A ratio in lowest terms, den > 0.
Frac(n, d) == LET g == Gcd(n, d) IN [num |-> n \div g, den |-> d \div g]

\* The value of the zero_division argument evaluate passes to the scores.
zero_division == [num |-> 0, den |-> 1]

\* A plausible slip in the scores: the ratio is taken as it is, and a zero
\* denominator gives a value that is no number.
PrfDivideUnguarded(n, d) == IF d = 0 THEN [num |-> 0, den |-> 0] ELSE Frac(n, d)

\* sklearn.metrics _prf_divide: the ratio, and zero_division where the
\* denominator is zero.
PrfDivide(n, d) == IF d = 0 THEN zero_division ELSE Frac(n, d)

\* The number of rows with true label a and predicted label b.
Cell(y_true, y_pred, a, b) ==
    Cardinality({ i \in DOMAIN y_true : y_true[i] = a /\ y_pred[i] = b })

\* The labels of confusion_matrix: those in y_true or y_pred, sorted.
SortedLabels(y_true, y_pred) ==
    SelectSeq(<<0, 1>>, LAMBDA c : c \in Range(y_true) \cup Range(y_pred))

\* evaluate(y_true, y_pred): [raised, metrics]. The scores take 1 as the
\* positive label; arrays of different lengths, or of no rows, are rejected by
\* the library.
EvaluateRun(y_true, y_pred) ==
    IF Len(y_true) # Len(y_pred) \/ y_true = <<>>
    THEN [raised |-> LibValueError, metrics |-> None]
    ELSE LET tp == Cell(y_true, y_pred, 1, 1)
             fp == Cell(y_true, y_pred, 0, 1)
             fn == Cell(y_true, y_pred, 1, 0)
             tn == Cell(y_true, y_pred, 0, 0)
             labels == SortedLabels(y_true, y_pred)
         IN  [raised |-> Ok,
              metrics |->
                [accuracy |-> Frac(tp + tn, Len(y_true)),
                 precision |-> PrfDivide(tp, tp + fp),
                 recall |-> PrfDivide(tp, tp + fn),
                 f1_score |-> PrfDivide(2 * tp, 2 * tp + fp + fn),
                 confusion_matrix |->
                    [a \in DOMAIN labels |->
                        [b \in DOMAIN labels |->
                            Cell(y_true, y_pred, labels[a], labels[b])]]]]

\* The label vectors evaluate is called on.
LabelVectors == SeqsUpTo({0, 1}, 1, MaxEvalRows)

(***************************************************************************)
(* FraudDetectionModel.predict / predict_proba of the isolation forest:    *)
(* what they make of the estimator's output.                               *)
(***************************************************************************)
\* Arithmetic on ratios [num, den], den > 0.
ROne == [num |-> 1, den |-> 1]
RAdd(x, y) == Frac(x.num * y.den + y.num * x.den, x.den * y.den)
RSub(x, y) == Frac(x.num * y.den - y.num * x.den, x.den * y.den)
RInv(x) == Frac(x.den, x.num)
RLess(x, y) == x.num * y.den < y.num * x.den

\* A decision score d is held as the ratio exp(d), so that np.exp is exact on
\* it. decision_function is score_samples - offset_, both in [-1, 0]: d lies
\* in [-1, 1] and exp(d) between 1/e and e.
DecisionScores ==
    { [num |-> 2, den |-> 3], [num |-> 1, den |-> 1], [num |-> 2, den |-> 1] }

\* d1 < d2
ScoreLess(d1, d2) == RLess(d1, d2)

\* np.exp(-decision_scores)
ExpNeg(d) == [num |-> d.den, den |-> d.num]

\* A plausible slip in the pseudo-probability: the logistic of the score
\* itself, without the reversal.
DecisionToProbaUnreversed(d) == RInv(RAdd(ROne, ExpNeg(d)))

\* probas = 1 - (1 / (1 + np.exp(-decision_scores)))
DecisionToProba(d) == RSub(ROne, RInv(RAdd(ROne, ExpNeg(d))))

\* IsolationForest.predict gives -1 for an outlier and 1 for an inlier.
RawPredictions == {-1, 1}

\* A plausible slip in the mapping of the labels: the two values swapped.
RawToLabelSwapped(raw_pred) == IF raw_pred = -1 THEN 0 ELSE 1

\* np.where(raw_pred == -1, 1, 0)
RawToLabel(raw_pred) == IF raw_pred = -1 THEN 1 ELSE 0

(***************************************************************************)
(* DataPreprocessor.extract_time_features on a frame of its own             *)
(***************************************************************************)
\* What a cell of the timestamp column can hold besides a timestamp: nothing
\* (None, NaN), and a string pd.to_datetime cannot parse.
Missing == [missing |-> TRUE]
Unparseable == [unparseable |-> TRUE]

At(y, m, d, h) == [year |-> y, month |-> m, day |-> d, hour |-> h]

\* The timestamps batches are drawn from: a week over a leap day, the turn of
\* a century, a month's and a year's first and last day, the epoch.
Timestamps ==
    { At(2024, 2, 28, 0), At(2024, 2, 29, 23), At(2024, 3, 1, 9), At(2024, 3, 2, 0),
      At(2024, 3, 3, 23), At(2024, 3, 4, 12), At(1999, 12, 31, 23), At(2000, 1, 1, 0),
      At(2100, 3, 1, 7), At(1970, 1, 1, 0) }

TimestampCells == Timestamps \cup {Missing, Unparseable}

\* The columns of a batch that has no timestamp column.
NoTimestampCols == SelectSeq(RawCols, LAMBDA c : c # "timestamp")

\* The time features of a row whose timestamp is missing: pd.to_datetime gives
\* NaT, the dt accessors give NaN, and the lambda of is_weekend gives 0, as
\* NaN >= 5 is false.
NaN == [nan |-> TRUE]
NaTFeatures ==
    [hour |-> NaN, day_of_week |-> NaN, day_of_month |-> NaN, month |-> NaN,
     year |-> NaN, is_weekend |-> 0]

\* extract_time_features(df) on a frame with columns cols whose timestamp
\* column, if it has one, holds cells: [raised, cols, features]. Without the
\* column the frame comes back as it is; features is then <<>>.
ExtractTimeFeatures(cols, cells) ==
    IF ~Contains(cols, "timestamp")
    THEN [raised |-> Ok, cols |-> cols, features |-> <<>>]
    ELSE IF \E i \in DOMAIN cells : cells[i] = Unparseable
    THEN [raised |-> LibValueError, cols |-> <<>>, features |-> <<>>]
    ELSE [raised |-> Ok, cols |-> ExtractTimeCols(cols),
          features |-> [i \in DOMAIN cells |->
                          IF cells[i] = Missing THEN NaTFeatures
                          ELSE TimeFeatures(cells[i])]]

TimeBatches == SeqsUpTo(TimestampCells, 1, MaxTimeRows)

\* What train can do up to save_model on the batches whose labels are of one
\* class only: all fraud, or all non-fraud.
OneClassRuns ==
    [t \in ModelTypes |->
        UNION { TrainRun(t, RowsOf(b), LabelsOf(b), ts) :
                b \in { c \in TrainBatches : Cardinality(Range(LabelsOf(c))) < 2 },
                ts \in TestSizes }]

(***************************************************************************)
(* Scoring calls running at once on one handle                             *)
(***************************************************************************)
\* The threads that call predict and predict_proba on one handle.
Threads == {1, 2}

ThreadIdle == [at |-> "idle"]

\* A plausible slip in preprocess_data: the copy left out, so that the columns
\* are added to the caller's frame.
PreprocessCallInPlace(df) ==
    [returned |-> PreprocessData(df),
     caller |-> [cols |-> PreprocessData(df).cols, rows |-> df.rows]]

\* preprocess_data(df) as a call: what it returns, and what the caller's frame
\* holds after it. df_copy = df.copy() comes first and every assignment is to
\* df_copy, so the caller's frame is as it was.
PreprocessCall(df) == [returned |-> PreprocessData(df), caller |-> df]

\* Training batches of at most 2 rows, and what train can do on them.
SmallTrainBatches == { b \in TrainBatches : Len(b) <= 2 }

SmallRuns ==
    [t \in ModelTypes |->
        UNION { TrainRun(t, RowsOf(b), LabelsOf(b), ts) :
                b \in SmallTrainBatches, ts \in TestSizes }]

\* The label vectors train splits: one order of each, as which rows of a class
\* are held out is left open by TestIndexSets.
SplitVectors ==
    { y \in SeqsUpTo({0, 1}, 1, MaxSplitRows) :
        \A i \in 1..(Len(y) - 1) : y[i] <= y[i + 1] }

\* train with the labels of the training partition kept beside the estimator
\* it fits on that partition (the estimator itself does not hold them).
TrainOnObserved(model_type, Xp, y, T) ==
    { [r EXCEPT !.model = IF r.assigned
                          THEN [y_train |-> Pick(y, DOMAIN y \ T)] @@ r.model
                          ELSE r.model] :
        r \in TrainOn(model_type, Xp, y, T) }

TrainRunObserved(model_type, rows, y, test_size) ==
    IF rows = <<>> \/ SplitRaises(y, test_size)
    THEN TrainRun(model_type, rows, y, test_size)
    ELSE LET Xp == PreprocessData([cols |-> RawCols, rows |-> rows])
         IN  UNION { TrainOnObserved(model_type, Xp, y, T) :
                        T \in TestIndexSets(y, test_size) }

\* Training batches of the first two rows of RowSeq.
ContaminationBatches ==
    { b \in SeqsUpTo({1, 2} \X {0, 1}, 1, MaxContaminationRows) :
        \A i \in 1..(Len(b) - 1) : Rank(b[i]) <= Rank(b[i + 1]) }

ObservedRuns ==
    [t \in ModelTypes |->
        UNION { TrainRunObserved(t, RowsOf(b), LabelsOf(b), ts) :
                b \in ContaminationBatches, ts \in TestSizes }]

(***************************************************************************)
(* State.                                                                  *)
(*   handle : the FraudDetectionModel objects (None: not constructed)      *)
(*   pc     : where each handle's running train / save_model is            *)
(*   files  : the files under ./models, [obj, save] or Absent; save is the *)
(*            number of the save_model call that wrote the file            *)
(*   saves  : the number of save_model calls that wrote a file so far      *)
(*   saved  : per model type, the model and the preprocessor the handle    *)
(*            held in the latest save_model call that returned            *)
(*   last   : the most recently finished call and what it gave             *)
(*   session: per browser, the Flask session: the id of the logged-in user   *)
(*            (Anonymous when none) and csv_data, the uploaded batch        *)
(*   db     : the relational store: the rows of user, transaction, report   *)
(***************************************************************************)
VARIABLES handle, pc, files, saves, saved, last, session, db

vars == <<handle, pc, files, saves, saved, last, session, db>>

\* Browsers, each with its own session cookie.
Clients == {1}
\* current_user of a session nobody is logged in to.
Anonymous == 0

Absent == [absent |-> TRUE]
Idle == [at |-> "idle"]

Init ==
    /\ handle = [h \in Handles |-> None]
    /\ pc = [h \in Handles |-> Idle]
    /\ files = [p \in Paths |-> Absent]
    /\ saves = 0
    /\ saved = [t \in ModelTypes |-> None]
    /\ last = [op |-> "none"]
    /\ session = [c \in Clients |-> [user_id |-> Anonymous, csv_data |-> Absent]]
    /\ db = [users |-> {}, transactions |-> {}, reports |-> {}]

Constructed(h) == handle[h] # None /\ pc[h] = Idle

\* FraudDetectionModel(model_type=t)
Construct(h, t) ==
    /\ UNCHANGED <<session, db>>
    /\ pc[h] = Idle
    /\ handle' = [handle EXCEPT ![h] = NewFraudDetectionModel(t)]
    /\ last' = [op |-> "__init__", h |-> h, raised |-> Ok]
    /\ UNCHANGED <<pc, files, saves, saved>>

\* save_model from its start to dump(self.model, self.model_path), called by
\* op on the handle self. The dump raises, or writes the file; the dump of the
\* preprocessor is the step DumpPreprocessor.
DumpModel(h, op, self) ==
    IF self.model = None
    THEN /\ handle' = [handle EXCEPT ![h] = self]
         /\ last' = [op |-> op, h |-> h, raised |-> NoModelToSave]
         /\ UNCHANGED <<pc, files, saves, saved>>
    ELSE \/ /\ handle' = [handle EXCEPT ![h] = self]
            /\ last' = [op |-> op, h |-> h, raised |-> IOError]
            /\ UNCHANGED <<pc, files, saves, saved>>
         \/ /\ saves < MaxSaves
            /\ saves' = saves + 1
            /\ handle' = [handle EXCEPT ![h] = self]
            /\ files' = [files EXCEPT ![self.model_path] =
                            [obj |-> self.model, save |-> saves + 1]]
            /\ pc' = [pc EXCEPT ![h] = [at |-> "dump_preprocessor", op |-> op,
                                        save |-> saves + 1]]
            /\ UNCHANGED <<saved, last>>

\* A plausible slip in train: self.is_trained = True is assigned with the
\* classifier, before the evaluation and save_model.
TrainMarkingEarly(h, runs) ==
    /\ UNCHANGED <<session, db>>
    /\ Constructed(h)
    /\ \E r \in runs[handle[h].model_type] :
        LET self == IF r.assigned
                    THEN [handle[h] EXCEPT !.model = r.model, !.is_trained = TRUE]
                    ELSE handle[h]
        IN  IF r.raised # Ok
            THEN /\ handle' = [handle EXCEPT ![h] = self]
                 /\ last' = [op |-> "train", h |-> h, raised |-> r.raised]
                 /\ UNCHANGED <<pc, files, saves, saved>>
            ELSE DumpModel(h, "train", self)

\* train(X, y, test_size), to the first dump of save_model; runs is what train
\* can do up to there on the batches it is given.
Train(h, runs) ==
    /\ UNCHANGED <<session, db>>
    /\ Constructed(h)
    /\ \E r \in runs[handle[h].model_type] :
        LET self == IF r.assigned THEN [handle[h] EXCEPT !.model = r.model] ELSE handle[h]
        IN  IF r.raised # Ok
            THEN /\ handle' = [handle EXCEPT ![h] = self]
                 /\ last' = [op |-> "train", h |-> h, raised |-> r.raised]
                 /\ UNCHANGED <<pc, files, saves, saved>>
            ELSE DumpModel(h, "train", self)

\* save_model(), to its first dump.
SaveModel(h) ==
    /\ UNCHANGED <<session, db>>
    /\ Constructed(h)
    /\ DumpModel(h, "save_model", handle[h])

\* dump(self.preprocessor, preprocessor_path), and what follows it: save_model
\* returns, and train sets is_trained and returns the metrics.
DumpPreprocessor(h) ==
    /\ UNCHANGED <<session, db>>
    /\ pc[h].at = "dump_preprocessor"
    /\ pc' = [pc EXCEPT ![h] = Idle]
    /\ \/ /\ last' = [op |-> pc[h].op, h |-> h, raised |-> IOError]
          /\ UNCHANGED <<handle, files, saves, saved>>
       \/ /\ files' = [files EXCEPT ![PreprocessorPath(handle[h].model_path)] =
                          [obj |-> handle[h].preprocessor, save |-> pc[h].save]]
          /\ handle' = [handle EXCEPT ![h].is_trained =
                          IF pc[h].op = "train" THEN TRUE ELSE @]
          /\ saved' = [saved EXCEPT ![handle[h].model_type] =
                          [model |-> handle[h].model,
                           preprocessor |-> handle[h].preprocessor,
                           save |-> pc[h].save]]
          /\ last' = [op |-> pc[h].op, h |-> h, raised |-> Ok]
          /\ UNCHANGED saves

\* A plausible slip in load_model: the handle is reset before the file is
\* looked for.
LoadModelResetting(h) ==
    /\ UNCHANGED <<session, db>>
    /\ Constructed(h)
    /\ LET self == handle[h]
           model_path == self.model_path
           preprocessor_path == PreprocessorPath(self.model_path)
       IN  IF files[model_path] = Absent
           THEN /\ handle' = [handle EXCEPT ![h] =
                        [self EXCEPT !.model = None, !.is_trained = FALSE]]
                /\ last' = [op |-> "load_model", h |-> h, raised |-> FileNotFound,
                            model_save |-> 0, preprocessor_save |-> 0]
                /\ UNCHANGED <<pc, files, saves, saved>>
           ELSE /\ handle' = [handle EXCEPT ![h] =
                        [self EXCEPT !.model = files[model_path].obj,
                                     !.preprocessor =
                                        IF files[preprocessor_path] # Absent
                                        THEN files[preprocessor_path].obj ELSE @,
                                     !.is_trained = TRUE]]
                /\ last' = [op |-> "load_model", h |-> h, raised |-> Ok,
                            model_save |-> files[model_path].save,
                            preprocessor_save |->
                                IF files[preprocessor_path] # Absent
                                THEN files[preprocessor_path].save ELSE 0]
                /\ UNCHANGED <<pc, files, saves, saved>>

\* load_model()
LoadModel(h) ==
    /\ UNCHANGED <<session, db>>
    /\ Constructed(h)
    /\ LET self == handle[h]
           model_path == self.model_path
           preprocessor_path == PreprocessorPath(self.model_path)
       IN  IF files[model_path] = Absent
           THEN /\ last' = [op |-> "load_model", h |-> h, raised |-> FileNotFound,
                            model_save |-> 0, preprocessor_save |-> 0]
                /\ UNCHANGED <<handle, pc, files, saves, saved>>
           ELSE \/ \* load(model_path) raises
                   /\ last' = [op |-> "load_model", h |-> h, raised |-> IOError,
                               model_save |-> 0, preprocessor_save |-> 0]
                   /\ UNCHANGED <<handle, pc, files, saves, saved>>
                \/ \* load(preprocessor_path) raises
                   /\ files[preprocessor_path] # Absent
                   /\ handle' = [handle EXCEPT ![h].model = files[model_path].obj]
                   /\ last' = [op |-> "load_model", h |-> h, raised |-> IOError,
                               model_save |-> files[model_path].save,
                               preprocessor_save |-> 0]
                   /\ UNCHANGED <<pc, files, saves, saved>>
                \/ /\ handle' = [handle EXCEPT ![h] =
                        [self EXCEPT !.model = files[model_path].obj,
                                     !.preprocessor =
                                        IF files[preprocessor_path] # Absent
                                        THEN files[preprocessor_path].obj ELSE @,
                                     !.is_trained = TRUE]]
                   /\ last' = [op |-> "load_model", h |-> h, raised |-> Ok,
                               model_save |-> files[model_path].save,
                               preprocessor_save |->
                                    IF files[preprocessor_path] # Absent
                                    THEN files[preprocessor_path].save ELSE 0]
                   /\ UNCHANGED <<pc, files, saves, saved>>

\* predict(X) and predict_proba(X): neither assigns to self.
Score(h, op, rows) ==
    /\ UNCHANGED <<session, db>>
    /\ Constructed(h)
    /\ \E r \in ScoreRun(handle[h], [cols |-> RawCols, rows |-> rows]) :
        last' = [op |-> op, h |-> h, raised |-> r.raised, handed |-> r.handed,
                 rows |-> r.rows, num |-> r.num]
    /\ UNCHANGED <<handle, pc, files, saves, saved>>

Predict(h, rows) == Score(h, "predict", rows)

PredictProba(h, rows) == Score(h, "predict_proba", rows)

\* self.preprocessor.fit(X) on the handle's DataPreprocessor.
FitPreprocessor(h, rows) ==
    /\ UNCHANGED <<session, db>>
    /\ Constructed(h)
    /\ LET r == Fit(handle[h].preprocessor, rows)
       IN  /\ handle' = [handle EXCEPT ![h].preprocessor = r.self]
           /\ last' = [op |-> "fit", h |-> h, raised |-> r.raised, rows |-> rows]
    /\ UNCHANGED <<pc, files, saves, saved>>

\* self.preprocessor.transform(X) on the handle's DataPreprocessor.
TransformPreprocessor(h, rows) ==
    /\ UNCHANGED <<session, db>>
    /\ Constructed(h)
    /\ LET r == Transform(handle[h].preprocessor, rows)
       IN  last' = [op |-> "transform", h |-> h, raised |-> r.raised,
                    rows |-> rows, value |-> r.value]
    /\ UNCHANGED <<handle, pc, files, saves, saved>>

\* evaluate(y_true, y_pred): assigns nothing to self.
Evaluate(h, y_true, y_pred) ==
    /\ UNCHANGED <<session, db>>
    /\ Constructed(h)
    /\ LET r == EvaluateRun(y_true, y_pred)
       IN  last' = [op |-> "evaluate", h |-> h, raised |-> r.raised,
                    y_true |-> y_true, y_pred |-> y_pred, metrics |-> r.metrics]
    /\ UNCHANGED <<handle, pc, files, saves, saved>>

\* predict(X) and predict_proba(X) of an isolation forest, with what they
\* return: native is what the estimator gives per row (its learned parameters
\* are not modelled, so any output it can give), value what the method returns.
Detect(h, op, rows) ==
    /\ UNCHANGED <<session, db>>
    /\ Constructed(h)
    /\ handle[h].model_type = "isolation_forest"
    /\ \E r \in ScoreRun(handle[h], [cols |-> RawCols, rows |-> rows]) :
        IF r.raised # Ok
        THEN last' = [op |-> op, h |-> h, raised |-> r.raised, handed |-> r.handed,
                      rows |-> r.rows, num |-> r.num, native |-> <<>>, value |-> <<>>]
        ELSE \E native \in [DOMAIN rows ->
                            IF op = "predict" THEN RawPredictions ELSE DecisionScores] :
                last' = [op |-> op, h |-> h, raised |-> Ok, handed |-> r.handed,
                         rows |-> r.rows, num |-> r.num, native |-> native,
                         value |-> [i \in DOMAIN rows |->
                                      IF op = "predict" THEN RawToLabel(native[i])
                                      ELSE DecisionToProba(native[i])]]
    /\ UNCHANGED <<handle, pc, files, saves, saved>>

DetectorPredict(h, rows) == Detect(h, "predict", rows)

DetectorPredictProba(h, rows) == Detect(h, "predict_proba", rows)

\* self.preprocessor.extract_time_features(df) on the handle's
\* DataPreprocessor: it works on a copy and assigns nothing to self.
ExtractTime(h, cols, cells) ==
    /\ UNCHANGED <<session, db>>
    /\ Constructed(h)
    /\ LET r == ExtractTimeFeatures(cols, cells)
       IN  last' = [op |-> "extract_time_features", h |-> h, raised |-> r.raised,
                    given |-> cols, cells |-> cells,
                    cols |-> r.cols, features |-> r.features]
    /\ UNCHANGED <<handle, pc, files, saves, saved>>

\* The scoring calls of the threads, statement by statement. pc[h] is
\* [at |-> "score", threads] while a thread is inside predict or predict_proba
\* of handle h; a thread's record holds the locals of its call.
Scoring(h) == pc[h].at = "score"

ThreadsOf(h) == IF Scoring(h) THEN pc[h].threads ELSE [t \in Threads |-> ThreadIdle]

\* pc with the threads of h set to ths.
WithThreads(h, ths) ==
    [pc EXCEPT ![h] = IF \A t \in Threads : ths[t] = ThreadIdle
                      THEN Idle
                      ELSE [at |-> "score", threads |-> ths]]

\* What a scoring call of thread t gives its caller.
ScoreResult(h, t, op, rows, raised, handed, Xp, caller) ==
    [op |-> op, h |-> h, thread |-> t, raised |-> raised, given |-> rows,
     handed |-> handed, rows |-> Xp.rows, num |-> Xp.num, caller |-> caller]

NoFrame == [rows |-> <<>>, num |-> <<>>]

\* Thread t calls op(X): the check of self.model.
ScoreCheck(h, t, op, rows) ==
    /\ UNCHANGED <<session, db>>
    /\ handle[h] # None
    /\ pc[h] = Idle \/ Scoring(h)
    /\ ThreadsOf(h)[t] = ThreadIdle
    /\ IF handle[h].model = None
       THEN /\ last' = ScoreResult(h, t, op, rows, NotTrained, <<>>, NoFrame,
                                   [cols |-> RawCols, rows |-> rows])
            /\ UNCHANGED pc
       ELSE /\ pc' = WithThreads(h, [ThreadsOf(h) EXCEPT ![t] =
                        [at |-> "preprocess", op |-> op, rows |-> rows]])
            /\ UNCHANGED last
    /\ UNCHANGED <<handle, files, saves, saved>>

\* X_processed = self.preprocessor.preprocess_data(X)
ScorePreprocess(h, t) ==
    /\ UNCHANGED <<session, db>>
    /\ Scoring(h)
    /\ pc[h].threads[t].at = "preprocess"
    /\ LET th == pc[h].threads[t]
           call == PreprocessCall([cols |-> RawCols, rows |-> th.rows])
       IN  pc' = WithThreads(h, [pc[h].threads EXCEPT ![t] =
                    [at |-> "estimator", op |-> th.op, rows |-> th.rows,
                     X_processed |-> call.returned, caller |-> call.caller]])
    /\ UNCHANGED <<handle, files, saves, saved, last>>

\* The branch on self.model_type, the call of self.model, and the return.
ScoreEstimator(h, t) ==
    /\ UNCHANGED <<session, db>>
    /\ Scoring(h)
    /\ pc[h].threads[t].at = "estimator"
    /\ LET th == pc[h].threads[t]
           Xp == th.X_processed
       IN  /\ IF handle[h].model_type \in {"random_forest", "isolation_forest"}
              THEN \E r \in EstimatorAccepts(handle[h].model, Xp.cols) :
                     last' = ScoreResult(h, t, th.op, th.rows, r, Xp.cols, Xp, th.caller)
              ELSE last' = ScoreResult(h, t, th.op, th.rows, Unsupported, <<>>, NoFrame,
                                       th.caller)
           /\ pc' = WithThreads(h, [pc[h].threads EXCEPT ![t] = ThreadIdle])
    /\ UNCHANGED <<handle, files, saves, saved>>

\* The split of train: train_test_split(X_processed, y, test_size=test_size,
\* random_state=random_state, stratify=y). test is the set of held-out indices.
TrainTestSplit(h, y, test_size) ==
    /\ UNCHANGED <<session, db>>
    /\ Constructed(h)
    /\ IF SplitRaises(y, test_size)
       THEN last' = [op |-> "train_test_split", h |-> h, raised |-> LibValueError,
                     y |-> y, test_size |-> test_size, test |-> {}]
       ELSE \E T \in TestIndexSets(y, test_size) :
                last' = [op |-> "train_test_split", h |-> h, raised |-> Ok,
                         y |-> y, test_size |-> test_size, test |-> T]
    /\ UNCHANGED <<handle, pc, files, saves, saved>>

\* self.preprocessor.preprocess_data(df) on the handle's DataPreprocessor, on
\* a batch with the columns of an upload: it assigns nothing to self.
Preprocess(h, rows) ==
    /\ UNCHANGED <<session, db>>
    /\ Constructed(h)
    /\ LET call == PreprocessCall([cols |-> RawCols, rows |-> rows])
       IN  last' = [op |-> "preprocess_data", h |-> h, raised |-> Ok,
                    given |-> rows, cols |-> call.returned.cols,
                    rows |-> call.returned.rows, num |-> call.returned.num,
                    ind |-> call.returned.ind, caller |-> call.caller]
    /\ UNCHANGED <<handle, pc, files, saves, saved>>

(***************************************************************************)
(* Specifications.                                                         *)
(***************************************************************************)
\* The life of a handle and of its files: every method of FraudDetectionModel,
\* scoring one row at a time.
Next ==
    \E h \in Handles :
        \/ \E t \in ModelTypes : Construct(h, t)
        \/ Train(h, TrainRuns)
        \/ SaveModel(h)
        \/ DumpPreprocessor(h)
        \/ LoadModel(h)
        \/ \E rows \in ScoreBatches : Predict(h, rows)
        \/ \E rows \in ScoreBatches : PredictProba(h, rows)

Spec == Init /\ [][Next]_vars

\* Scoring batches of several rows on a trained random forest.
NextScore ==
    \E h \in Handles :
        \/ Construct(h, "random_forest")
        \/ Train(h, TrainRuns)
        \/ DumpPreprocessor(h)
        \/ \E rows \in PairBatches : Predict(h, rows)
        \/ \E rows \in PairBatches : PredictProba(h, rows)

SpecScore == Init /\ [][NextScore]_vars

\* The encoder of a handle that is never trained: fit and transform called on
\* handle.preprocessor, and scoring before any train or load.
NextEncoder ==
    \E h \in Handles :
        \/ \E t \in ModelTypes : Construct(h, t)
        \/ \E rows \in FitBatches : FitPreprocessor(h, rows)
        \/ \E rows \in FitBatches : TransformPreprocessor(h, rows)
        \/ \E rows \in ScoreBatches : Predict(h, rows)
        \/ \E rows \in ScoreBatches : PredictProba(h, rows)

SpecEncoder == Init /\ [][NextEncoder]_vars

\* The artifact store: handles whose encoder the caller has fitted, saved and
\* loaded back.
NextStore ==
    \E h \in Handles :
        \/ Construct(h, "random_forest")
        \/ \E rows \in StoreFitBatches : FitPreprocessor(h, rows)
        \/ Train(h, TrainRuns)
        \/ SaveModel(h)
        \/ DumpPreprocessor(h)
        \/ LoadModel(h)

SpecStore == Init /\ [][NextStore]_vars
\* The metrics: evaluate called on label vectors of one length.
NextMetrics ==
    \E h \in Handles :
        \/ \E t \in ModelTypes : Construct(h, t)
        \/ \E y_true, y_pred \in LabelVectors :
            Len(y_true) = Len(y_pred) /\ Evaluate(h, y_true, y_pred)

SpecMetrics == Init /\ [][NextMetrics]_vars
\* The anomaly detector: an isolation forest trained, then scoring batches.
NextDetector ==
    \E h \in Handles :
        \/ Construct(h, "isolation_forest")
        \/ Train(h, TrainRuns)
        \/ DumpPreprocessor(h)
        \/ \E rows \in PairBatches : DetectorPredict(h, rows)
        \/ \E rows \in PairBatches : DetectorPredictProba(h, rows)

SpecDetector == Init /\ [][NextDetector]_vars
\* The time features: extract_time_features on batches with and without a
\* timestamp column.
NextTime ==
    \E h \in Handles :
        \/ Construct(h, "random_forest")
        \/ \E cols \in {RawCols, NoTimestampCols} : \E cells \in TimeBatches :
            ExtractTime(h, cols, cells)

SpecTime == Init /\ [][NextTime]_vars
\* The supervised variant trained on labels of one class only.
NextOneClass ==
    \E h \in Handles :
        \/ Construct(h, "random_forest")
        \/ Train(h, OneClassRuns)
        \/ DumpPreprocessor(h)
        \/ LoadModel(h)

SpecOneClass == Init /\ [][NextOneClass]_vars
\* Scoring calls of two threads on one handle, one calling predict and the
\* other predict_proba, between trains and loads, and evaluate.
NextConcurrent ==
    \E h \in Handles :
        \/ Construct(h, "random_forest")
        \/ Train(h, SmallRuns)
        \/ DumpPreprocessor(h)
        \/ LoadModel(h)
        \/ \E rows \in ScoreBatches : ScoreCheck(h, 1, "predict", rows)
        \/ \E rows \in ScoreBatches : ScoreCheck(h, 2, "predict_proba", rows)
        \/ \E t \in Threads : ScorePreprocess(h, t)
        \/ \E t \in Threads : ScoreEstimator(h, t)
        \/ \E y_true, y_pred \in SeqsUpTo({0, 1}, 1, 1) : Evaluate(h, y_true, y_pred)

SpecConcurrent == Init /\ [][NextConcurrent]_vars
\* The split train makes of its labels.
NextSplit ==
    \E h \in Handles :
        \/ Construct(h, "random_forest")
        \/ \E y \in SplitVectors : \E ts \in TestSizes : TrainTestSplit(h, y, ts)

SpecSplit == Init /\ [][NextSplit]_vars
\* The isolation forest trained, with the labels of its training partition
\* kept.
NextContamination ==
    \E h \in Handles :
        \/ Construct(h, "isolation_forest")
        \/ Train(h, ObservedRuns)
        \/ DumpPreprocessor(h)

SpecContamination == Init /\ [][NextContamination]_vars
\* The two scalers: the one fit keeps in the encoder, and the one
\* preprocess_data makes for each batch.
NextScaler ==
    \E h \in Handles :
        \/ Construct(h, "random_forest")
        \/ \E rows \in FitBatches : FitPreprocessor(h, rows)
        \/ \E rows \in FitBatches : TransformPreprocessor(h, rows)
        \/ \E rows \in PairBatches : Preprocess(h, rows)

SpecScaler == Init /\ [][NextScaler]_vars
(***************************************************************************)
(* Properties.                                                             *)
(***************************************************************************)
IsScore(l) == l.op \in {"predict", "predict_proba"}

\* The latest call was op on h, and h has not started another since.
Finished(h, op) == last.op = op /\ last.h = h /\ pc[h] = Idle

\* The step was a call of op on h that has returned or raised.
Returned(h, op) == last'.op = op /\ last'.h = h /\ pc' = pc /\ files' = files

ModelPathOf(h) == handle[h].model_path
PreprocessorPathOf(h) == PreprocessorPath(handle[h].model_path)

\* A batch used to compare two encoders by what they transform it to.
SampleBatches == SeqsUpTo(RowSet, 1, 1)

\* C1: whenever predict or predict_proba of a trained handle hands a frame to
\* the classifier, the frame has the columns, in the order, of the frame the
\* classifier was fitted on.
C1_ScoredColumnsAsTrained ==
    \A h \in Handles :
        (/\ IsScore(last)
         /\ last.h = h
         /\ pc[h] = Idle
         /\ last.handed # <<>>
         /\ handle[h].is_trained
         /\ handle[h].model.fitted)
        => last.handed = handle[h].model.feature_names_in

\* C2: between two scoring calls that returned on the same trained handle, a
\* row that is in both batches gets the same scaled numeric features in both.
C2_ScaledByTrainingStatistics ==
    [][ \A h \in Handles :
          (/\ IsScore(last) /\ IsScore(last')
           /\ last.h = h /\ last'.h = h
           /\ handle' = handle
           /\ handle[h].is_trained
           /\ last.raised = Ok /\ last'.raised = Ok)
          => \A i \in DOMAIN last.rows : \A j \in DOMAIN last'.rows :
                last.rows[i] = last'.rows[j] => last.num[i] = last'.num[j] ]_vars

\* C3: a load_model that returns hands back a classifier and an encoder that
\* one and the same save_model call wrote.
C3_LoadNeverSeesPartialSave ==
    \A h \in Handles :
        (Finished(h, "load_model") /\ last.raised = Ok)
        => (last.model_save = last.preprocessor_save)

\* C4: load_model restores the classifier and the encoder together or not at
\* all: when it returns, model and preprocessor are the two persisted objects,
\* and when it raises, the handle is as before.
C4_LoadsPairOrNothing ==
    [][ \A h \in Handles :
          (Returned(h, "load_model") /\ handle[h] # None)
          => IF last'.raised = Ok
             THEN /\ files[PreprocessorPathOf(h)] # Absent
                  /\ handle'[h].model = files[ModelPathOf(h)].obj
                  /\ handle'[h].preprocessor = files[PreprocessorPathOf(h)].obj
             ELSE handle'[h] = handle[h] ]_vars

\* C5: load_model on a handle under whose key no file has been written raises
\* FileNotFoundError and leaves the handle (model, preprocessor, is_trained)
\* as it was.
C5_LoadOfMissingArtifact ==
    [][ \A h \in Handles :
          (/\ Returned(h, "load_model")
           /\ handle[h] # None
           /\ files[ModelPathOf(h)] = Absent
           /\ files[PreprocessorPathOf(h)] = Absent)
          => (last'.raised = FileNotFound /\ handle'[h] = handle[h]) ]_vars

\* C5, witness: a load_model raised FileNotFoundError on a handle that holds a
\* model, while another variant's files exist.
C5_Witness ==
    \E h \in Handles :
        /\ Finished(h, "load_model") /\ last.raised = FileNotFound
        /\ handle[h].model # None
        /\ \E p \in Paths : files[p] # Absent

C7_TrainPersistsFittedEncoder ==
    \A h \in Handles :
        (Finished(h, "train") /\ last.raised = Ok)
        => \A X \in SampleBatches :
            /\ Transform(handle[h].preprocessor, X).raised = Ok
            /\ Transform(files[PreprocessorPathOf(h)].obj, X).raised = Ok

\* C8: no handle exists whose model_type is not one of the two supported
\* variants.
C8_NoHandleOfUnsupportedType ==
    \A h \in Handles :
        handle[h] # None => handle[h].model_type \in {"random_forest", "isolation_forest"}

\* C9: transform on an encoder that fit was never called on, and predict and
\* predict_proba on a handle that holds no model, raise the not-fitted error,
\* give no result and leave the handle and its encoder as they were.
C9_NotFittedRaises ==
    [][ \A h \in Handles :
          /\ (/\ Returned(h, "transform")
              /\ handle[h] # None
              /\ handle[h].preprocessor.preprocessor = None)
             => (/\ last'.raised = EncoderNotFitted
                 /\ last'.value = <<>>
                 /\ handle'[h] = handle[h])
          /\ (/\ IsScore(last') /\ last'.h = h
              /\ handle[h] # None
              /\ handle[h].model = None)
             => (/\ last'.raised = NotTrained
                 /\ last'.handed = <<>>
                 /\ handle'[h] = handle[h]) ]_vars

\* C9, witness: both calls have raised so, the transform on a handle whose
\* encoder was never fitted and the scoring on a handle without a model.
C9_Witness ==
    \E h \in Handles :
        /\ handle[h] # None
        /\ handle[h].model = None
        /\ handle[h].preprocessor.preprocessor = None
        /\ \/ last.op = "transform" /\ last.raised = EncoderNotFitted
           \/ IsScore(last) /\ last.raised = NotTrained

\* The encoder of h is fitted.
EncoderFitted(h) ==
    /\ handle[h] # None
    /\ handle[h].preprocessor.preprocessor # None
    /\ handle[h].preprocessor.preprocessor.fitted

Unseen(h, j, v) == ~Contains(handle[h].preprocessor.preprocessor.categories[j], FillNa(v))

\* The indicator block of categorical column j in an encoded row.
Block(h, j, encoded) ==
    LET cats == handle[h].preprocessor.preprocessor.categories
        from == 1 + (IF j = 1 THEN 0 ELSE Len(cats[1]))
    IN  [k \in 1..Len(cats[j]) |-> encoded[from + k]]

\* C10: transform on a fitted encoder does not raise on a batch with category
\* values outside the fitted vocabulary; every row comes out with the same
\* width, and the indicator block of an unseen value is all zero.
C10_UnseenCategoryEncodesToZeros ==
    \A h \in Handles :
        (/\ Finished(h, "transform")
         /\ EncoderFitted(h)
         /\ last.rows # <<>>)
        => /\ last.raised = Ok
           /\ \A i \in DOMAIN last.rows :
                LET cats == handle[h].preprocessor.preprocessor.categories
                    row == last.rows[i]
                IN  /\ Len(last.value[i]) = 1 + Len(cats[1]) + Len(cats[2])
                    /\ Unseen(h, 1, row.merchant_category)
                        => \A k \in 1..Len(cats[1]) : Block(h, 1, last.value[i])[k] = 0
                    /\ Unseen(h, 2, row.location)
                        => \A k \in 1..Len(cats[2]) : Block(h, 2, last.value[i])[k] = 0

\* C10, witness: a batch with a row of an unseen merchant_category, a row of
\* an unseen location and a row of known values has been transformed.
C10_Witness ==
    \E h \in Handles :
        /\ Finished(h, "transform") /\ last.raised = Ok
        /\ EncoderFitted(h)
        /\ \E i \in DOMAIN last.rows : Unseen(h, 1, last.rows[i].merchant_category)
        /\ \E i \in DOMAIN last.rows : Unseen(h, 2, last.rows[i].location)
        /\ \E i \in DOMAIN last.rows :
            /\ ~Unseen(h, 1, last.rows[i].merchant_category)
            /\ ~Unseen(h, 2, last.rows[i].location)

\* C11: evaluate on label vectors of one length does not raise, and reports
\* precision, recall and f1 as 0 whenever the denominator of the score is zero:
\* no predicted positive, no positive in y_true, or neither.
C11_ZeroDenominatorGivesZero ==
    \A h \in Handles :
        Finished(h, "evaluate")
        => LET tp == Cell(last.y_true, last.y_pred, 1, 1)
               fp == Cell(last.y_true, last.y_pred, 0, 1)
               fn == Cell(last.y_true, last.y_pred, 1, 0)
               zero == [num |-> 0, den |-> 1]
           IN  /\ last.raised = Ok
               /\ (tp + fp = 0) => last.metrics.precision = zero
               /\ (tp + fn = 0) => last.metrics.recall = zero
               /\ (2 * tp + fp + fn = 0) => last.metrics.f1_score = zero
               /\ (tp = 0) => last.metrics.f1_score = zero

\* C11, witness: evaluate([1,1], [0,0]) has returned precision = recall = f1 = 0.
C11_Witness ==
    \E h \in Handles :
        /\ Finished(h, "evaluate") /\ last.raised = Ok
        /\ last.y_true = <<1, 1>> /\ last.y_pred = <<0, 0>>
        /\ last.metrics.precision.num = 0
        /\ last.metrics.recall.num = 0
        /\ last.metrics.f1_score.num = 0

\* C12: every value predict_proba of an isolation forest returns lies in
\* [0, 1], and of two rows of a batch the one with the lower decision score
\* does not get the lower value.
C12_ProbaReversesDecisionScore ==
    \A h \in Handles :
        (/\ Finished(h, "predict_proba") /\ last.raised = Ok
         /\ handle[h].model_type = "isolation_forest")
        => /\ DOMAIN last.value = DOMAIN last.rows
           /\ \A i \in DOMAIN last.value :
                /\ last.value[i].num >= 0
                /\ last.value[i].num <= last.value[i].den
           /\ \A i, j \in DOMAIN last.value :
                ScoreLess(last.native[i], last.native[j])
                    => ~RLess(last.value[i], last.value[j])

\* C12, witness: a batch of two rows of different decision scores, one below
\* and one above 0, has got its pseudo-probabilities.
C12_Witness ==
    \E h \in Handles :
        /\ Finished(h, "predict_proba") /\ last.raised = Ok
        /\ handle[h].model_type = "isolation_forest"
        /\ Len(last.native) = 2
        /\ ScoreLess(last.native[1], ROne) /\ ScoreLess(ROne, last.native[2])
        /\ RLess(last.value[2], last.value[1])

\* The timestamp column of the latest extract_time_features holds a timestamp
\* in every row.
AllParseable ==
    /\ Contains(last.given, "timestamp")
    /\ \A i \in DOMAIN last.cells : last.cells[i] \in Timestamps

\* ts2 is the day after ts1, within one month.
NextDay(ts1, ts2) ==
    ts1.year = ts2.year /\ ts1.month = ts2.month /\ ts2.day = ts1.day + 1

\* C13: on a batch with a timestamp in every row, extract_time_features gives
\* per row the hour (0..23), day_of_week (0..6, Monday = 0: 2024-03-04, a
\* Monday, gets 0, and a day gets one more than the day before it, modulo 7),
\* day_of_month (1..31), month (1..12), year of the timestamp, and is_weekend,
\* which is 1 exactly when day_of_week is 5 or 6 and 0 otherwise.
C13_TimeFeaturesInRange ==
    \A h \in Handles :
        (Finished(h, "extract_time_features") /\ AllParseable)
        => /\ last.raised = Ok
           /\ DOMAIN last.features = DOMAIN last.cells
           /\ \A c \in Range(TimeCols) : Contains(last.cols, c)
           /\ \A i \in DOMAIN last.cells :
                LET f == last.features[i]
                    ts == last.cells[i]
                IN  /\ f.hour = ts.hour /\ f.hour \in 0..23
                    /\ f.day_of_week \in 0..6
                    /\ (ts.year = 2024 /\ ts.month = 3 /\ ts.day = 4) => f.day_of_week = 0
                    /\ f.day_of_month = ts.day /\ f.day_of_month \in 1..31
                    /\ f.month = ts.month /\ f.month \in 1..12
                    /\ f.year = ts.year
                    /\ f.is_weekend \in {0, 1}
                    /\ (f.is_weekend = 1) <=> (f.day_of_week \in {5, 6})
           /\ \A i, j \in DOMAIN last.cells :
                NextDay(last.cells[i], last.cells[j])
                => last.features[j].day_of_week = (last.features[i].day_of_week + 1) % 7

\* C13, witness: a batch of a Sunday and the Monday after it has got its
\* features, the Sunday a weekend day and the Monday not.
C13_Witness ==
    \E h \in Handles :
        /\ Finished(h, "extract_time_features") /\ AllParseable
        /\ last.raised = Ok
        /\ Len(last.cells) = 2
        /\ NextDay(last.cells[1], last.cells[2])
        /\ last.features[1].day_of_week = 6 /\ last.features[1].is_weekend = 1
        /\ last.features[2].day_of_week = 0 /\ last.features[2].is_weekend = 0

\* C14: extract_time_features raises on a batch that has no timestamp column
\* or has a row whose timestamp is missing or cannot be parsed.
C14_NoSilentDefault ==
    \A h \in Handles :
        (Finished(h, "extract_time_features") /\ ~AllParseable)
        => last.raised # Ok

\* C15: where every train of the random forest is on labels of one class, no
\* train returns, no handle ever holds a classifier or is marked trained, and
\* no file is written.
C15_OneClassTrainFails ==
    /\ \A h \in Handles :
        /\ (Finished(h, "train") => last.raised # Ok)
        /\ handle[h] # None => (handle[h].model = None /\ ~handle[h].is_trained)
    /\ \A p \in Paths : files[p] = Absent

\* The step is one of a scoring call or of evaluate on h.
ScoringStep(h) ==
    \/ Scoring(h) \/ pc'[h].at = "score"
    \/ (last' # last /\ last'.op \in {"predict", "predict_proba", "evaluate"})

\* The step is the return of a scoring call of h that reached the estimator.
ScoreReturns(h) ==
    /\ Scoring(h)
    /\ \E t \in Threads : pc[h].threads[t].at = "estimator" /\ ThreadsOf(h)'[t] = ThreadIdle

\* C16: on a handle that holds a model, no step of predict, predict_proba or
\* evaluate changes the handle (model, preprocessor, model_type, model_path,
\* is_trained) or the files; a scoring call leaves the caller's batch as it
\* was given, and returns what the call gives when it runs alone on the
\* handle, whatever the other thread is doing.
C16_ScoringIsReadOnly ==
    [][ \A h \in Handles :
          (handle[h] # None /\ handle[h].model # None /\ ScoringStep(h))
          => /\ handle'[h] = handle[h]
             /\ files' = files
             /\ ScoreReturns(h)
                => /\ last'.caller = [cols |-> RawCols, rows |-> last'.given]
                   /\ [raised |-> last'.raised, handed |-> last'.handed,
                       rows |-> last'.rows, num |-> last'.num]
                      \in ScoreRun(handle[h], [cols |-> RawCols, rows |-> last'.given]) ]_vars

\* C16, witness: on a trained handle a scoring call has returned its values
\* while the call of the other thread, on another batch, was at the estimator.
C16_Witness ==
    \E h \in Handles :
        /\ handle[h] # None /\ handle[h].is_trained
        /\ last.op \in {"predict", "predict_proba"} /\ last.h = h /\ last.raised = Ok
        /\ Scoring(h)
        /\ \E t \in Threads :
            /\ t # last.thread
            /\ pc[h].threads[t].at = "estimator"
            /\ pc[h].threads[t].rows # last.given

\* The number of fraud rows of y at the indices in S.
Fraud(y, S) == Cardinality({ i \in S : y[i] = 1 })

\* C17: when the split of train succeeds, the held-out partition has
\* ceil(test_size * n) rows, and the number of fraud rows in the held-out
\* partition and in the training partition each differ by less than one row
\* from the share of the partition in the fraud rows of the batch. For 100
\* rows with 10 fraud and a training partition of 80 rows the only allocation
\* is 72 non-fraud and 8 fraud, which leaves 18 and 2 held out.
C17_SplitIsStratified ==
    /\ \A h \in Handles :
        (Finished(h, "train_test_split") /\ last.raised = Ok)
        => LET n == Len(last.y)
               n_test == Cardinality(last.test)
               n_train == n - n_test
               f == Fraud(last.y, DOMAIN last.y)
               f_test == Fraud(last.y, last.test)
               f_train == f - f_test
           IN  /\ last.test \subseteq DOMAIN last.y
               /\ n_test = CeilDiv(last.test_size * n, 100)
               /\ f_test * n - f * n_test < n /\ f * n_test - f_test * n < n
               /\ f_train * n - f * n_train < n /\ f * n_train - f_train * n < n
    /\ ApproximateMode([k \in {0, 1} |-> IF k = 1 THEN 10 ELSE 90], 80)
        = { [k \in {0, 1} |-> IF k = 1 THEN 8 ELSE 72] }

\* C17, witness: a batch of 6 rows with 2 fraud has been split with
\* test_size 0.5, one fraud row held out and one kept for training.
C17_Witness ==
    \E h \in Handles :
        /\ Finished(h, "train_test_split") /\ last.raised = Ok
        /\ Len(last.y) = 6 /\ Fraud(last.y, DOMAIN last.y) = 2
        /\ last.test_size = 50
        /\ Cardinality(last.test) = 3
        /\ Fraud(last.y, last.test) = 1

\* C18: predict of an isolation forest returns per row 1 exactly when the
\* estimator's own prediction for the row is -1, and 0 otherwise.
C18_OutlierIsFraud ==
    \A h \in Handles :
        (/\ Finished(h, "predict") /\ last.raised = Ok
         /\ handle[h].model_type = "isolation_forest")
        => /\ DOMAIN last.value = DOMAIN last.rows
           /\ \A i \in DOMAIN last.value :
                /\ last.value[i] \in {0, 1}
                /\ (last.value[i] = 1) <=> (last.native[i] = -1)

\* C18, witness: a batch of an outlier and an inlier has been labelled 1 and 0.
C18_Witness ==
    \E h \in Handles :
        /\ Finished(h, "predict") /\ last.raised = Ok
        /\ handle[h].model_type = "isolation_forest"
        /\ last.native = <<-1, 1>>
        /\ last.value = <<1, 0>>

\* C19: the contamination an isolation forest in a handle is configured with
\* is the fraction of positives among the labels of the rows it was fitted on.
C19_ContaminationOfTrainingLabels ==
    \A h \in Handles :
        (/\ handle[h] # None
         /\ handle[h].model # None
         /\ handle[h].model.fitted)
        => handle[h].model.contamination
            = Frac(SumSeq(handle[h].model.y_train), Len(handle[h].model.y_train))

\* The scaled value 0.
ScaledZero == [sgn |-> 0, num |-> 0, den |-> 1]

\* Column j of numeric_cols has one value over all rows.
ConstantColumn(rows, j) ==
    \A i, k \in DOMAIN rows :
        RawNumeric(rows[i], (numeric_features \o TimeCols)[j])
            = RawNumeric(rows[k], (numeric_features \o TimeCols)[j])

\* The scaler of the encoder of h was fitted on amounts that are all the same.
FittedOnConstant(h) ==
    LET st == handle[h].preprocessor.preprocessor.scaler
    IN  st.n * st.q = st.s * st.s

\* C20: a numeric column that is constant over the rows its scaler is fitted
\* on is scaled with the divisor 1. In preprocess_data, which fits the scaler
\* on the batch it scales, the column comes out all zero; in transform of an
\* encoder fitted on constant amounts, an amount comes out as its difference
\* from the fitted mean, which is zero for the fitted amount. No scaled value
\* has a zero denominator.
C20_ConstantColumnScalesToZero ==
    \A h \in Handles :
        /\ (Finished(h, "preprocess_data") /\ last.raised = Ok)
            => \A j \in 1..(Len(numeric_features) + Len(TimeCols)) :
                /\ \A i \in DOMAIN last.num : last.num[i][j].den # 0
                /\ ConstantColumn(last.given, j)
                    => \A i \in DOMAIN last.num : last.num[i][j] = ScaledZero
        /\ (Finished(h, "transform") /\ last.raised = Ok)
            => LET st == handle[h].preprocessor.preprocessor.scaler
               IN  \A i \in DOMAIN last.value :
                    LET v == last.value[i][1]
                        p == st.n * last.rows[i].amount - st.s
                    IN  /\ v.den # 0
                        /\ FittedOnConstant(h)
                            => /\ v.num * st.n * st.n = p * p * v.den
                               /\ (p = 0) => v = ScaledZero

\* C20, witness: preprocess_data has scaled a batch of two rows of one amount
\* and different hours.
C20_Witness ==
    \E h \in Handles :
        /\ Finished(h, "preprocess_data") /\ last.raised = Ok
        /\ Len(last.given) = 2
        /\ ConstantColumn(last.given, 1)
        /\ ~ConstantColumn(last.given, 2)

\* C20, the other case reached: transform has scaled the fitted amount and
\* another one on an encoder fitted on a constant amount.
C20_WitnessTransform ==
    \E h \in Handles :
        /\ Finished(h, "transform") /\ last.raised = Ok
        /\ FittedOnConstant(h)
        /\ Len(last.rows) = 2
        /\ last.value[1][1] = ScaledZero
        /\ last.value[2][1] # ScaledZero

\* The encoder a fresh DataPreprocessor holds after fit(rows) alone.
FitAlone(rows) == Fit(NewDataPreprocessor, rows).self

\* A fit of the encoder of h returns or raises in this step.
FitStep(h) == Returned(h, "fit") /\ handle[h] # None

\* C21, the second fit replaces the first: after a fit that returned, every
\* transform gives what it gives on an encoder fitted on that batch alone.
C21_SecondFitReplaces ==
    \A h \in Handles :
        (FitStep(h) /\ last'.raised = Ok)
        => /\ EncoderFitted(h)'
           /\ \A X \in FitBatches :
                Transform(handle'[h].preprocessor, X) = Transform(FitAlone(last'.rows), X)

\* C21, fitting the same batch again gives the same fitted state.
C21_FitIdempotent ==
    \A h \in Handles :
        (/\ FitStep(h) /\ last'.raised = Ok
         /\ last.op = "fit" /\ last.h = h /\ last.raised = Ok
         /\ last'.rows = last.rows)
        => handle'[h] = handle[h]

\* C21, no fit takes a fitted encoder back to unfitted.
C21_StaysFitted ==
    \A h \in Handles : (FitStep(h) /\ EncoderFitted(h)) => EncoderFitted(h)'

\* C21: fit moves the encoder from unfitted to fitted and a second fit fully
\* replaces the first: after fit(A) then fit(B) every transform equals the
\* transform after fit(B) alone, fit(A) twice gives the fitted state of fit(A)
\* once, and the encoder never returns to unfitted.
C21_FitReplacesAndStaysFitted ==
    [][C21_SecondFitReplaces /\ C21_FitIdempotent /\ C21_StaysFitted]_vars

\* C21, the parts that are about fits that return.
C21_ReturningFits == [][C21_SecondFitReplaces /\ C21_FitIdempotent]_vars

\* The classifier file of the variant of h has been written.
ClassifierFileWritten(h) == files[ModelPathOf(h)] # Absent

\* A handle marked trained holds a model and its classifier file exists.
TrainedHasModelAndFile ==
    \A h \in Handles :
        (handle[h] # None /\ handle[h].is_trained)
        => (handle[h].model # None /\ ClassifierFileWritten(h))

\* A train of h raises in this step: in train itself, or in either dump of its
\* save_model.
TrainRaises(h) ==
    /\ handle[h] # None
    /\ last'.op = "train" /\ last'.h = h /\ last'.raised # Ok
    /\ pc'[h] = Idle

\* C22: in every state reachable through train, save_model, load_model,
\* predict and predict_proba, calls that fail part-way included, is_trained
\* implies that model is set and that the classifier file of the handle's
\* variant has been written; a train that raises leaves is_trained at the
\* value it had.
C22_TrainedImpliesModelAndFile ==
    /\ []TrainedHasModelAndFile
    /\ [][\A h \in Handles :
            TrainRaises(h) => handle'[h].is_trained = handle[h].is_trained]_vars

\* C22, witness: a train has fitted the classifier and written its file, and
\* then failed in the dump of the preprocessor; the handle holds the fitted
\* classifier and is not marked trained.
C22_Witness ==
    \E h \in Handles :
        /\ Finished(h, "train") /\ last.raised = IOError
        /\ handle[h].model # None /\ handle[h].model.fitted
        /\ ClassifierFileWritten(h)
        /\ ~handle[h].is_trained

\* C22, a second witness: a handle marked trained has been trained again, and
\* that train failed with the classifier already replaced.
C22_WitnessRetrain ==
    \E h \in Handles :
        /\ Finished(h, "train") /\ last.raised # Ok
        /\ handle[h].is_trained
        /\ handle[h].model # None
        /\ handle[h].model # files[ModelPathOf(h)].obj

(***************************************************************************)
(* The web front end: routes.py over the Flask session and the database.   *)
(***************************************************************************)
MaxUsers == 2
MaxUploadRows == 2
MaxReports == 1

\* The transaction_id column of the rows of RowSeq.
TransactionIds == <<"tx_1", "tx_2", "tx_3">>

\* A request without a file, with a file that is no .csv, or with one that
\* parse_csv raises on.
BadFile == [bad_file |-> TRUE]

\* The files of an upload request. [rows] is one parse_csv accepts: a frame of
\* rows with the required columns, held as the indices of its rows in RowSeq;
\* it may hold the header only, and may repeat a transaction_id.
UploadFiles ==
    { [rows |-> b] : b \in { b \in SeqsUpTo(DOMAIN RowSeq, 0, MaxUploadRows) :
                                \A i \in 1..(Len(b) - 1) : b[i] <= b[i + 1] } }
    \cup {BadFile}

\* The hours since 1970-01-01 00:00 of a datetime, the order datetimes compare in.
Hours(ts) == 24 * DaysFromCivil(ts.year, ts.month, ts.day) + ts.hour

\* The dates of a request ('%Y-%m-%d', midnight) and of the server's clock.
Dates == {At(2024, 3, 2, 0), At(2024, 3, 3, 0)}

\* current_user of the session of browser c.
CurrentUser(c) == session[c].user_id

\* What a view gives the browser: the template or JSON it renders, or the
\* place it redirects to, and the rows of the database the rendered page or
\* JSON was computed from.
\* status is what is sent: <<"render">>, <<"json">>, <<"404">>, or
\* <<"redirect", view>>, which @login_required answers with, to login, in a
\* session nobody is logged in to.
Response(c, view, status, transactions, reports) ==
    [op |-> view, c |-> c, user |-> CurrentUser(c), status |-> status,
     raised |-> Ok, transactions |-> transactions, reports |-> reports]

\* register, POST: a new row of user, with the next id.
Register(c) ==
    /\ UNCHANGED <<handle, pc, files, saves, saved, session>>
    /\ IF CurrentUser(c) # Anonymous
       THEN /\ last' = Response(c, "register", <<"redirect", "dashboard">>, {}, {})
            /\ db' = db
       ELSE /\ Cardinality(db.users) < MaxUsers
            /\ db' = [db EXCEPT !.users = @ \cup {Cardinality(db.users) + 1}]
            /\ last' = Response(c, "register", <<"redirect", "login">>, {}, {})

\* login, POST with the email of user u: with the right password login_user
\* puts the user's id in the session, otherwise the form is rendered again.
Login(c, u, password_ok) ==
    /\ UNCHANGED <<handle, pc, files, saves, saved, db>>
    /\ IF CurrentUser(c) # Anonymous
       THEN /\ last' = Response(c, "login", <<"redirect", "dashboard">>, {}, {})
            /\ session' = session
       ELSE IF u \in db.users /\ password_ok
       THEN /\ session' = [session EXCEPT ![c].user_id = u]
            /\ last' = Response(c, "login", <<"redirect", "dashboard">>, {}, {})
       ELSE /\ session' = session
            /\ last' = Response(c, "login", <<"render">>, {}, {})

\* logout: logout_user removes the user's id from the session and leaves its
\* other keys.
Logout(c) ==
    /\ UNCHANGED <<handle, pc, files, saves, saved, db>>
    /\ IF CurrentUser(c) = Anonymous
       THEN /\ last' = Response(c, "logout", <<"redirect", "login">>, {}, {})
            /\ session' = session
       ELSE /\ session' = [session EXCEPT ![c].user_id = Anonymous]
            /\ last' = Response(c, "logout", <<"redirect", "index">>, {}, {})

\* upload, POST: a file parse_csv accepts is stored in the session as
\* csv_data, over what was there; any other request leaves the session.
Upload(c, file) ==
    /\ UNCHANGED <<handle, pc, files, saves, saved, db>>
    /\ IF CurrentUser(c) = Anonymous
       THEN /\ last' = Response(c, "upload", <<"redirect", "login">>, {}, {})
            /\ session' = session
       ELSE IF file = BadFile
       THEN /\ last' = Response(c, "upload", <<"redirect", "upload">>, {}, {})
            /\ session' = session
       ELSE /\ session' = [session EXCEPT ![c].csv_data = file]
            /\ last' = Response(c, "upload", <<"redirect", "analyze">>, {}, {})

\* load_model() on a handle nobody else holds: the set of [raised, self].
LoadRun(self) ==
    LET model_path == self.model_path
        preprocessor_path == PreprocessorPath(self.model_path)
    IN  IF files[model_path] = Absent
        THEN {[raised |-> FileNotFound, self |-> self]}
        ELSE {[raised |-> IOError, self |-> self],
              [raised |-> Ok,
               self |-> [self EXCEPT !.model = files[model_path].obj,
                                     !.preprocessor =
                                        IF files[preprocessor_path] # Absent
                                        THEN files[preprocessor_path].obj ELSE @,
                                     !.is_trained = TRUE]]}

\* dataframe_to_transactions(df, user_id), and the ids the database gives
\* the rows when they are committed.
DataframeToTransactions(df, is_fraud, user_id) ==
    { [id |-> Cardinality(db.transactions) + i,
       transaction_id |-> TransactionIds[df[i]],
       amount |-> RowSeq[df[i]].amount,
       timestamp |-> RowSeq[df[i]].timestamp,
       is_fraud |-> is_fraud[i],
       user_id |-> user_id] : i \in DOMAIN df }

\* analyze, POST, from the construction of the model to the commit: what it
\* raises (Ok: nothing, the rows are committed). Without a model file the rows
\* are scored at random; on a frame of no rows df.apply gives a frame, whose
\* assignment to the column flagged_reason raises or not by the version of
\* pandas. The commit raises when a transaction_id repeats one of the table or
\* of the batch (the column is unique), or when the database fails.
AnalyzeRaises(df) ==
    LET rows == [i \in DOMAIN df |-> RowSeq[df[i]]]
        scoring ==
            UNION { IF l.raised = FileNotFound
                    THEN (IF rows = <<>> THEN {Ok, LibValueError} ELSE {Ok})
                    ELSE IF l.raised # Ok
                    THEN {l.raised}
                    ELSE { r.raised :
                            r \in ScoreRun(l.self, [cols |-> RawCols, rows |-> rows]) } :
                    l \in LoadRun(NewFraudDetectionModel("random_forest")) }
        repeats ==
            \/ \E i, j \in DOMAIN df : i # j /\ df[i] = df[j]
            \/ \E i \in DOMAIN df :
                \E t \in db.transactions : t.transaction_id = TransactionIds[df[i]]
    IN  UNION { IF raised # Ok THEN {raised}
                ELSE IF repeats THEN {"IntegrityError"}
                ELSE {"OperationalError", Ok} : raised \in scoring }

\* analyze, GET: the preview of the batch of the session.
AnalyzeGet(c) ==
    /\ UNCHANGED <<handle, pc, files, saves, saved, session, db>>
    /\ last' = [method |-> "GET"] @@
               IF CurrentUser(c) = Anonymous THEN Response(c, "analyze", <<"redirect", "login">>, {}, {})
               ELSE IF session[c].csv_data = Absent
               THEN Response(c, "analyze", <<"redirect", "upload">>, {}, {})
               ELSE Response(c, "analyze", <<"render">>, {}, {})

\* A plausible slip in analyze: csv_data is popped when the batch is read from
\* the session, before it is scored and committed.
AnalyzePostPoppingFirst(c, flags) ==
    /\ UNCHANGED <<handle, pc, files, saves, saved>>
    /\ IF CurrentUser(c) = Anonymous
       THEN /\ last' = [method |-> "POST"] @@ Response(c, "analyze", <<"redirect", "login">>, {}, {})
            /\ UNCHANGED <<session, db>>
       ELSE IF session[c].csv_data = Absent
       THEN /\ last' = [method |-> "POST"] @@
                            Response(c, "analyze", <<"redirect", "upload">>, {}, {})
            /\ UNCHANGED <<session, db>>
       ELSE LET df == session[c].csv_data.rows
            IN  \E raised \in AnalyzeRaises(df), is_fraud \in [DOMAIN df -> flags] :
                    /\ session' = [session EXCEPT ![c].csv_data = Absent]
                    /\ IF raised # Ok
                       THEN /\ last' = [method |-> "POST"] @@
                                    [Response(c, "analyze", <<"render">>, {}, {})
                                        EXCEPT !.raised = raised]
                            /\ db' = db
                       ELSE /\ db' = [db EXCEPT !.transactions = @ \cup
                                    DataframeToTransactions(df, is_fraud, CurrentUser(c))]
                            /\ last' = [method |-> "POST"] @@
                                    Response(c, "analyze", <<"redirect", "dashboard">>, {}, {})

\* analyze, POST: score the batch of the session, commit its rows as
\* transactions of the current user, then pop csv_data. Whatever raises before
\* the pop is caught and the preview rendered.
AnalyzePost(c, flags) ==
    /\ UNCHANGED <<handle, pc, files, saves, saved>>
    /\ IF CurrentUser(c) = Anonymous
       THEN /\ last' = [method |-> "POST"] @@ Response(c, "analyze", <<"redirect", "login">>, {}, {})
            /\ UNCHANGED <<session, db>>
       ELSE IF session[c].csv_data = Absent
       THEN /\ last' = [method |-> "POST"] @@
                            Response(c, "analyze", <<"redirect", "upload">>, {}, {})
            /\ UNCHANGED <<session, db>>
       ELSE LET df == session[c].csv_data.rows
            IN  \E raised \in AnalyzeRaises(df), is_fraud \in [DOMAIN df -> flags] :
                    IF raised # Ok
                    THEN /\ last' = [method |-> "POST"] @@
                                    [Response(c, "analyze", <<"render">>, {}, {})
                                        EXCEPT !.raised = raised]
                         /\ UNCHANGED <<session, db>>
                    ELSE /\ db' = [db EXCEPT !.transactions = @ \cup
                                    DataframeToTransactions(df, is_fraud, CurrentUser(c))]
                         /\ session' = [session EXCEPT ![c].csv_data = Absent]
                         /\ last' = [method |-> "POST"] @@
                                    Response(c, "analyze", <<"redirect", "dashboard">>, {}, {})

\* A plausible slip in a query: the filter on user_id is left out.
TransactionsOfAnyone(user, start, end) ==
    { t \in db.transactions :
        /\ start = None \/ Hours(t.timestamp) >= Hours(start)
        /\ end = None \/ Hours(t.timestamp) <= Hours(end) }

\* Transaction.query.filter(user_id == user, timestamp >= start,
\* timestamp <= end), a bound of None being left out of the query.
TransactionsOf(user, start, end) ==
    { t \in db.transactions :
        /\ t.user_id = user
        /\ start = None \/ Hours(t.timestamp) >= Hours(start)
        /\ end = None \/ Hours(t.timestamp) <= Hours(end) }

\* A plausible slip in view_report and transaction_detail: the comparison of
\* the row's user_id with the current user is left out.
OwnedByAnyone(row, user) == TRUE

\* row.user_id != current_user.id, negated.
OwnedBy(row, user) == row.user_id = user

\* dashboard: the statistics and the time series of the user's transactions
\* and the latest of the user's fraudulent ones.
Dashboard(c) ==
    /\ UNCHANGED <<handle, pc, files, saves, saved, session, db>>
    /\ last' = IF CurrentUser(c) = Anonymous THEN Response(c, "dashboard", <<"redirect", "login">>, {}, {})
               ELSE Response(c, "dashboard", <<"render">>,
                        TransactionsOf(CurrentUser(c), None, None)
                            \cup { t \in TransactionsOf(CurrentUser(c), None, None) :
                                    t.is_fraud }, {})

\* reports: the user's reports.
Reports(c) ==
    /\ UNCHANGED <<handle, pc, files, saves, saved, session, db>>
    /\ last' = IF CurrentUser(c) = Anonymous THEN Response(c, "reports", <<"redirect", "login">>, {}, {})
               ELSE Response(c, "reports", <<"render">>, {},
                        { r \in db.reports : r.user_id = CurrentUser(c) })

\* generate_report(user_id, ..., start_date, end_date, transactions), and the
\* id the database gives the row.
GenerateReport(user_id, start_date, end_date, transactions) ==
    LET fraud == { t \in transactions :
                    /\ Hours(start_date) <= Hours(t.timestamp)
                    /\ Hours(t.timestamp) <= Hours(end_date)
                    /\ t.is_fraud }
    IN  [id |-> Cardinality(db.reports) + 1,
         start_date |-> start_date, end_date |-> end_date,
         fraud_count |-> Cardinality(fraud),
         user_id |-> user_id]

\* create_report, POST with a title.
CreateReport(c, start_date, end_date) ==
    /\ UNCHANGED <<handle, pc, files, saves, saved, session>>
    /\ IF CurrentUser(c) = Anonymous
       THEN /\ last' = Response(c, "create_report", <<"redirect", "login">>, {}, {})
            /\ db' = db
       ELSE IF Hours(end_date) < Hours(start_date)
       THEN /\ last' = Response(c, "create_report", <<"redirect", "create_report">>, {}, {})
            /\ db' = db
       ELSE /\ Cardinality(db.reports) < MaxReports
            /\ db' = [db EXCEPT !.reports = @ \cup
                        {GenerateReport(CurrentUser(c), start_date, end_date,
                            TransactionsOf(CurrentUser(c), start_date, end_date))}]
            /\ last' = Response(c, "create_report", <<"redirect", "reports">>, {}, {})

\* view_report(report_id)
ViewReport(c, report_id) ==
    /\ UNCHANGED <<handle, pc, files, saves, saved, session, db>>
    /\ last' = [requested |-> report_id] @@
        IF CurrentUser(c) = Anonymous THEN Response(c, "view_report", <<"redirect", "login">>, {}, {})
        ELSE IF \A r \in db.reports : r.id # report_id
        THEN Response(c, "view_report", <<"404">>, {}, {})
        ELSE LET report == CHOOSE r \in db.reports : r.id = report_id
             IN  IF ~OwnedBy(report, CurrentUser(c))
                 THEN Response(c, "view_report", <<"redirect", "reports">>, {}, {})
                 ELSE Response(c, "view_report", <<"render">>,
                        TransactionsOf(CurrentUser(c), report.start_date, report.end_date),
                        {report})

\* transaction_detail(transaction_id)
TransactionDetail(c, transaction_id) ==
    /\ UNCHANGED <<handle, pc, files, saves, saved, session, db>>
    /\ last' = [requested |-> transaction_id] @@
        IF CurrentUser(c) = Anonymous THEN Response(c, "transaction_detail", <<"redirect", "login">>, {}, {})
        ELSE IF \A t \in db.transactions : t.id # transaction_id
        THEN Response(c, "transaction_detail", <<"404">>, {}, {})
        ELSE LET transaction == CHOOSE t \in db.transactions : t.id = transaction_id
             IN  IF ~OwnedBy(transaction, CurrentUser(c))
                 THEN Response(c, "transaction_detail", <<"redirect", "dashboard">>, {}, {})
                 ELSE Response(c, "transaction_detail", <<"render">>, {transaction}, {})

\* api_transactions, with start_date, end_date (None: not given) and fraud_only.
ApiTransactions(c, start_date, end_date, fraud_only) ==
    /\ UNCHANGED <<handle, pc, files, saves, saved, session, db>>
    /\ last' =
        IF CurrentUser(c) = Anonymous THEN Response(c, "api_transactions", <<"redirect", "login">>, {}, {})
        ELSE LET query == TransactionsOf(CurrentUser(c), start_date, end_date)
             IN  Response(c, "api_transactions", <<"json">>,
                    IF fraud_only THEN { t \in query : t.is_fraud } ELSE query, {})

\* api_stats, with period, at the clock's now: the rows from now - timedelta,
\* or from datetime.min, which is before every row, to now.
ApiStats(c, period, now) ==
    /\ UNCHANGED <<handle, pc, files, saves, saved, session, db>>
    /\ last' =
        IF CurrentUser(c) = Anonymous THEN Response(c, "api_stats", <<"redirect", "login">>, {}, {})
        ELSE Response(c, "api_stats", <<"json">>,
                TransactionsOf(CurrentUser(c),
                    IF period = "day" THEN At(now.year, now.month, now.day - 1, now.hour)
                    ELSE IF period = "week"
                    THEN At(now.year, now.month, now.day - 7, now.hour)
                    ELSE None,
                    now), {})

\* api_timeseries, with start_date and end_date (None: not given).
ApiTimeseries(c, start_date, end_date) ==
    /\ UNCHANGED <<handle, pc, files, saves, saved, session, db>>
    /\ last' =
        IF CurrentUser(c) = Anonymous THEN Response(c, "api_timeseries", <<"redirect", "login">>, {}, {})
        ELSE Response(c, "api_timeseries", <<"json">>,
                TransactionsOf(CurrentUser(c), start_date, end_date), {})

\* One train of the random forest, on a batch of both classes.
AnalyzeRuns ==
    [t \in ModelTypes |->
        TrainRun(t, <<RowSeq[1], RowSeq[1], RowSeq[2], RowSeq[3]>>, <<0, 1, 0, 1>>, 50)]

\* The views that show rows of the database, called by users who log in and
\* out of one browser and upload and analyse batches; no model file exists.
NextViews ==
    \E c \in Clients :
        \/ Register(c)
        \/ \E u \in 1..MaxUsers, password_ok \in BOOLEAN : Login(c, u, password_ok)
        \/ Logout(c)
        \/ \E file \in {[rows |-> <<1>>], [rows |-> <<3>>], BadFile} : Upload(c, file)
        \/ AnalyzePost(c, BOOLEAN)
        \/ \E start_date, end_date \in Dates : CreateReport(c, start_date, end_date)
        \/ Dashboard(c)
        \/ Reports(c)
        \/ \E report_id \in 1..MaxReports : ViewReport(c, report_id)
        \/ \E transaction_id \in 1..Len(TransactionIds) : TransactionDetail(c, transaction_id)
        \/ \E start_date, end_date \in Dates \cup {None}, fraud_only \in BOOLEAN :
            ApiTransactions(c, start_date, end_date, fraud_only)
        \/ \E period \in {"day", "week", "all"}, now \in Dates : ApiStats(c, period, now)
        \/ \E start_date, end_date \in Dates \cup {None} :
            ApiTimeseries(c, start_date, end_date)

SpecViews == Init /\ [][NextViews]_vars

\* The upload and the analysis of batches, with and without a trained model
\* on disk.
NextAnalyze ==
    \/ \E h \in Handles :
        \/ Construct(h, "random_forest")
        \/ Train(h, AnalyzeRuns)
        \/ DumpPreprocessor(h)
    \/ \E c \in Clients :
        \/ Register(c)
        \/ Login(c, 1, TRUE)
        \/ Logout(c)
        \/ \E file \in UploadFiles : Upload(c, file)
        \/ AnalyzeGet(c)
        \/ AnalyzePost(c, {FALSE})

SpecAnalyze == Init /\ [][NextAnalyze]_vars

\* The views that show rows of the database.
ListViews == {"dashboard", "reports", "api_transactions", "api_stats", "api_timeseries"}
RowViews == {"view_report", "transaction_detail"}

\* The rows a view was asked for by id.
Requested ==
    IF last.op = "view_report" THEN { r \in db.reports : r.id = last.requested }
    ELSE { t \in db.transactions : t.id = last.requested }

\* What the response shows of the row asked for.
ShownOf(row) == IF last.op = "view_report" THEN last.reports ELSE last.transactions

\* The response shows no row.
ShowsNothing == last.transactions = {} /\ last.reports = {}

\* C23: no logged-in user is shown another user's data: view_report and
\* transaction_detail render the report or transaction asked for when its
\* user_id is the current user's id and otherwise redirect and render no row,
\* and dashboard, reports, api_transactions, api_stats and api_timeseries
\* return only rows whose user_id is the current user's id.
C23_OnlyOwnRowsShown ==
    (last.op \in ListViews \cup RowViews /\ last.user # Anonymous)
    => /\ \A t \in last.transactions : t.user_id = last.user
       /\ \A r \in last.reports : r.user_id = last.user
       /\ last.op \in RowViews
            => \A row \in Requested :
                IF row.user_id = last.user
                THEN last.status = <<"render">> /\ ShownOf(row) = {row}
                ELSE last.status[1] = "redirect" /\ ShowsNothing

\* C23, witness: a logged-in user has asked for a transaction of another user
\* and was redirected.
C23_Witness ==
    /\ last.op = "transaction_detail"
    /\ last.user # Anonymous
    /\ \E t \in Requested : t.user_id # last.user
    /\ last.status = <<"redirect", "dashboard">>

\* C23, further witnesses: a user with rows of their own has been given a list
\* while the table also holds rows of another user, and has been rendered a
\* report of their own with its transactions.
C23_WitnessList ==
    /\ last.op \in {"dashboard", "api_transactions", "api_stats", "api_timeseries"}
    /\ last.transactions # {}
    /\ \E t \in db.transactions : t.user_id # last.user

C23_WitnessReport ==
    /\ last.op = "view_report" /\ last.status = <<"render">>
    /\ last.transactions # {}
    /\ \E t \in db.transactions : t.user_id # last.user

\* An analyze request of browser c is answered in this step.
AnalyzeStep(c) ==
    /\ last'.op = "analyze" /\ last'.c = c
    /\ handle' = handle /\ pc' = pc /\ files' = files
    /\ CurrentUser(c) # Anonymous

\* The rows of the batch of the session of c are committed in this step as
\* transactions of the current user, and nothing else is.
BatchCommitted(c) ==
    LET df == session[c].csv_data.rows
        new == db'.transactions \ db.transactions
    IN  /\ db.transactions \subseteq db'.transactions
        /\ Cardinality(new) = Len(df)
        /\ \A i \in DOMAIN df :
            \E t \in new : /\ t.transaction_id = TransactionIds[df[i]]
                           /\ t.user_id = CurrentUser(c)

\* C24, csv_data is removed from the session only by a POST to analyze whose
\* transactions were committed.
C24_RemovedOnlyByCommit ==
    \A c \in Clients :
        (session[c].csv_data # Absent /\ session'[c].csv_data = Absent)
        => /\ AnalyzeStep(c) /\ last'.method = "POST"
           /\ last'.raised = Ok
           /\ BatchCommitted(c)

\* C24, an analyze that fails keeps csv_data and writes no transaction.
C24_FailureKeepsBatch ==
    \A c \in Clients :
        (AnalyzeStep(c) /\ last'.raised # Ok)
        => /\ session[c].csv_data # Absent
           /\ session' = session
           /\ db' = db

\* C24, analyze without csv_data redirects to upload and writes no transaction.
C24_NoBatchRedirects ==
    \A c \in Clients :
        (AnalyzeStep(c) /\ session[c].csv_data = Absent)
        => /\ last'.status = <<"redirect", "upload">>
           /\ db' = db

\* C24: the uploaded batch stays in the session until it has been analysed
\* successfully: csv_data is removed from the session only by a POST to
\* analyze whose scored transactions were committed to the database; an
\* analyze that fails while scoring or persisting keeps csv_data, and analyze
\* without csv_data in the session redirects to upload without writing any
\* transaction.
C24_BatchKeptUntilCommitted ==
    [][C24_RemovedOnlyByCommit /\ C24_FailureKeepsBatch /\ C24_NoBatchRedirects]_vars

\* C24, witness: with a trained model on disk, a POST to analyze has failed
\* while scoring and the batch is still in the session.
C24_Witness ==
    \E c \in Clients :
        /\ last.op = "analyze" /\ last.c = c /\ last.method = "POST"
        /\ last.raised \in {LibValueError, IOError}
        /\ files[NewFraudDetectionModel("random_forest").model_path] # Absent
        /\ session[c].csv_data # Absent

\* C24, further witnesses: a POST to analyze has failed in the commit; one has
\* committed its batch; one without a batch was redirected to upload.
C24_WitnessCommitFailed ==
    \E c \in Clients :
        /\ last.op = "analyze" /\ last.c = c
        /\ last.raised \in {"IntegrityError", "OperationalError"}
        /\ session[c].csv_data # Absent

C24_WitnessCommitted ==
    \E c \in Clients :
        /\ last.op = "analyze" /\ last.c = c /\ last.method = "POST"
        /\ last.status = <<"redirect", "dashboard">>
        /\ session[c].csv_data = Absent
        /\ db.transactions # {}

C24_WitnessScoredByModel ==
    \E c \in Clients :
        /\ last.op = "analyze" /\ last.c = c /\ last.method = "POST"
        /\ last.status = <<"redirect", "dashboard">>
        /\ files[NewFraudDetectionModel("random_forest").model_path] # Absent

C24_WitnessNoBatch ==
    \E c \in Clients :
        /\ last.op = "analyze" /\ last.c = c /\ last.user # Anonymous
        /\ last.status = <<"redirect", "upload">>

====
